---- MODULE Spec2Model ----
(***************************************************************************)
(* Booking orchestrator of the Calemly React SDK (SchedulerProvider) and   *)
(* its identity utilities, as state machines.                              *)
(*                                                                         *)
(* One action is one macrotask of the browser's event loop: the handler or *)
(* the continuation of an awaited network call, the React state it sets,   *)
(* and the effects React runs on the commit that follows.                  *)
(***************************************************************************)
EXTENDS Integers, FiniteSets, Sequences, Bags, TLC

\* ------------------------------------------------------------------------
\* Domains
\* ------------------------------------------------------------------------
EventIds == {"evA", "evB"}
SlotIds == {"s1", "s2"}
NoEvent == "no_event"
NoSlot == "no_slot"
NoBooking == "no_booking"
NoTemplate == "no_template"
NoError == "no_error"
NoOrder == "no_order"
NoCapture == "no_capture"
NoPending == [kind |-> "none", orderId |-> NoOrder, slot |-> NoSlot, eventType |-> NoEvent]
NoEntry == [present |-> FALSE, slots |-> {}, expiresAt |-> 0, stale |-> FALSE]
NoCaptureReq == [active |-> FALSE, orderId |-> NoOrder, returned |-> NoCapture]
NoOp == [name |-> "none", from |-> "none"]
\* the event type of the last selection that fetched its details, and whether
\* every fetch answered since the selections began has loaded its event type
NoFetchSelection == [last |-> NoEvent, clean |-> TRUE]
\* a host whose onBookingSuccess and onBookingError return normally
ReturningCallbacks == [successThrows |-> FALSE, errorThrows |-> FALSE]
NoSettle == [via |-> "none", ok |-> FALSE]
NoResult == [returned |-> FALSE, ok |-> FALSE, code |-> "none", slot |-> NoSlot]

SELECT_EVENT == "select_event"
SELECT_TIME == "select_time"
CONFIRM == "confirm"
SUCCESS == "success"

\* Bounds of the exploration
MaxTime == 2
MaxSlotReqs == 2
MaxEventReqs == 2
MaxAttempts == 2
MaxRefresh == 1

\* cacheTtlMs and the length of a calendar day, in ticks of the model clock
CacheTtl == 1
DayLen == 2

\* Identity utilities: the scope keys tried, the length scope keys are cut
\* to, the ids drawn, the clock, and REQUEST_ID_TTL_MS in ticks of that clock
MaxScopeLen == 2
ScopeSlice == 1
MaxUuids == 3
MaxIdTime == 3
RequestIdTtl == 2

\* BookingForm: the submissions of the form and of the card form explored
MaxPaySubmits == 2
MaxCardSubmits == 2

\* conflict suggestions: the calls of the suggestion service explored
MaxSuggestionCalls == 3
MaxConflicts == 2
MaxFeedbackCalls == 2

\* API client: retryConfig.maxRetries, and calculateBackoff's baseDelay,
\* maxDelay and the width of its random jitter, in milliseconds
MaxRetries == 2
BaseDelay == 1000
MaxDelay == 12000
JitterRange == 350

VARIABLES
    \* construction
    phase, providedEventType, eventSlug, embedKey,
    \* backend: whether the items of the embed's list carry their details
    listHasDetails,
    \* React state of SchedulerProvider
    step, eventType, eventTypes, selectionMode, organization,
    slots, selectedSlot, confirmedBooking, activeTemplate, templateOptions,
    error, alternatives, loadError,
    isInitializing, isLoadingSlots, isFetchingEvent, isSubmitting, refreshTick,
    \* refs
    availabilityCache, initRequestRef, paypalReturnHandled,
    \* browser: location.search, sessionStorage, clock
    urlToken, urlPayerId, urlCancelled, pendingStore, now,
    \* requests in flight
    inits, eventReqs, slotReqs, templateReqs, captureReq, attempts,
    paypalEffectCancelled,
    \* history of the calls made and callbacks invoked
    captureCalls, mountPending, fetchSelection, hostCallbacks, callbacks,
    \* what the slot fetches saw: for the cache claims
    loads, awaitingFetch, storedAt, lastBooked, slotsStale,
    \* the handler that ran in the step, the booking attempt it settled, and
    \* what createBookingForContext returned in it
    lastOp, settled, lastResult,
    \* identity utilities: localStorage, the clock, the uuids drawn so far,
    \* and what the last call and the last mint of each scope returned
    storageAvailable, requestIdStore, idNow, uuidsDrawn, lastIdCall, minted,
    \* sessionStorage with the tracking session id, the contact token in
    \* localStorage, and what the last call for one of the two returned
    sessionStore, contactItem, lastToken,
    \* API client, one call of request(): navigator.onLine, where the call
    \* stands, its locals attempt and lastError, the fetches issued, the
    \* sleeps taken, the responses received, and how the call ended
    online, apiPhase, apiAttempt, lastError, fetches, waits, responses, callResult,
    \* BookingForm of a paid event: its payment state, the browser around it
    \* (sessionStorage, location), the calls in flight and the calls made
    checkout,
    \* BookingForm on a conflict error: the alternatives the error carried,
    \* the suggestion service, the form's suggestion state, the calls made
    resolver,
    \* custom form: the schema of the event type, the answers typed so far,
    \* and what validateFormAnswers returned for them last
    formSchema, answers, validation,
    \* provider on a failed booking: the error thrown, and the alternatives and
    \* template fallback suggestions the catch block set for it
    failure,
    \* BookingForm and provider around a conflict: the slot booked, the error and
    \* its alternatives, the suggestions shown, the feedback calls made and in
    \* flight, and the error callbacks invoked
    picker,
    \* booking submissions: the client request id each scope key received last
    issued,
    \* BookingForm's template selector: the initial template, the options, the
    \* template selected, what the guest chose last and the payload submitted
    templates

vars == << phase, providedEventType, eventSlug, embedKey, listHasDetails,
    step, eventType, eventTypes, selectionMode, organization,
    slots, selectedSlot, confirmedBooking, activeTemplate, templateOptions,
    error, alternatives, loadError,
    isInitializing, isLoadingSlots, isFetchingEvent, isSubmitting, refreshTick,
    availabilityCache, initRequestRef, paypalReturnHandled,
    urlToken, urlPayerId, urlCancelled, pendingStore, now,
    inits, eventReqs, slotReqs, templateReqs, captureReq, attempts,
    paypalEffectCancelled,
    captureCalls, mountPending, fetchSelection, hostCallbacks, callbacks,
    loads, awaitingFetch, storedAt, lastBooked, slotsStale, lastOp, settled,
    lastResult,
    storageAvailable, requestIdStore, idNow, uuidsDrawn, lastIdCall, minted,
    sessionStore, contactItem, lastToken,
    online, apiPhase, apiAttempt, lastError, fetches, waits, responses, callResult,
    checkout, resolver, formSchema, answers, validation, failure, picker, issued, templates >>

\* The whole state as one record, so that a handler is a function on it.
\* loads, lastOp, settled and callbacks start blank in every step: they
\* describe what the step did.
S == [ phase |-> phase, providedEventType |-> providedEventType,
       eventSlug |-> eventSlug, embedKey |-> embedKey,
       listHasDetails |-> listHasDetails,
       step |-> step, eventType |-> eventType, eventTypes |-> eventTypes,
       selectionMode |-> selectionMode, organization |-> organization,
       slots |-> slots, selectedSlot |-> selectedSlot,
       confirmedBooking |-> confirmedBooking, activeTemplate |-> activeTemplate,
       templateOptions |-> templateOptions,
       error |-> error, alternatives |-> alternatives, loadError |-> loadError,
       isInitializing |-> isInitializing, isLoadingSlots |-> isLoadingSlots,
       isFetchingEvent |-> isFetchingEvent, isSubmitting |-> isSubmitting,
       refreshTick |-> refreshTick,
       availabilityCache |-> availabilityCache, initRequestRef |-> initRequestRef,
       paypalReturnHandled |-> paypalReturnHandled,
       urlToken |-> urlToken, urlPayerId |-> urlPayerId,
       urlCancelled |-> urlCancelled, pendingStore |-> pendingStore, now |-> now,
       inits |-> inits, eventReqs |-> eventReqs, slotReqs |-> slotReqs,
       templateReqs |-> templateReqs, captureReq |-> captureReq,
       attempts |-> attempts, paypalEffectCancelled |-> paypalEffectCancelled,
       captureCalls |-> captureCalls,
       mountPending |-> mountPending, fetchSelection |-> fetchSelection,
       hostCallbacks |-> hostCallbacks, callbacks |-> << >>,
       loads |-> << >>, awaitingFetch |-> awaitingFetch,
       storedAt |-> storedAt, lastBooked |-> lastBooked,
       slotsStale |-> slotsStale, lastOp |-> NoOp, settled |-> NoSettle,
       lastResult |-> NoResult ]

idVars == << storageAvailable, requestIdStore, idNow, uuidsDrawn, lastIdCall, minted,
            sessionStore, contactItem, lastToken >>

apiVars == << online, apiPhase, apiAttempt, lastError, fetches, waits, responses, callResult >>

formVars == << checkout, resolver, formSchema, answers, validation, failure, picker, issued, templates >>

EmptySlots == [s \in SlotIds |-> "absent"]
EmptyCache == [k \in EventIds \X (0 .. (MaxTime \div DayLen)) |-> NoEntry]

\* ------------------------------------------------------------------------
\* Pure helpers of the provider
\* ------------------------------------------------------------------------

\* dayjs().format('YYYY-MM-DD'): the calendar day of the slot window
Today(t) == t \div DayLen

\* parsePayPalReturnContext().hasReturnParams
hasReturnParams(n) == n.urlToken \/ n.urlPayerId \/ n.urlCancelled

\* readPendingPayPalBooking() is truthy
hasPending(n) == n.pendingStore.kind # "none"

\* the guard shared by initialize and the loading effect
resumableReturn(n) == hasReturnParams(n) /\ hasPending(n)

clearPayPalReturnParams(n) ==
    [n EXCEPT !.urlToken = FALSE, !.urlPayerId = FALSE, !.urlCancelled = FALSE]

clearPendingPayPalBooking(n) == [n EXCEPT !.pendingStore = NoPending]

clearBookingError(n) == [n EXCEPT !.error = NoError, !.alternatives = {}]

invalidateAvailability(n, ev) ==
    [n EXCEPT !.availabilityCache =
        [k \in DOMAIN @ |-> IF ev = NoEvent \/ k[1] = ev THEN NoEntry ELSE @[k]]]

\* a booking attempt that marks nothing
markSlotPendingSkipped(n, s) == n

markSlotPending(n, s) ==
    [n EXCEPT !.slots = [@ EXCEPT ![s] = IF @ = "absent" THEN "absent" ELSE "pending"]]

\* a failed attempt that leaves the flag of its slot alone
revertPendingSlotSkipped(n, s) == n

revertPendingSlot(n, s) ==
    [n EXCEPT !.slots = [@ EXCEPT ![s] = IF @ = "absent" THEN "absent" ELSE "free"]]

removeBookedSlot(n, s) == [n EXCEPT !.slots = [@ EXCEPT ![s] = "absent"]]

\* embedSettings.selection_mode === 'single' || eventSlug || providedEventType
pinned(n) ==
    n.selectionMode = "single" \/ n.eventSlug \/ n.providedEventType # NoEvent

\* The requests in flight are bags: two requests alike are two responses due.
one(r) == SetToBag({r})

\* setSlots(map): the slot map a response or a cache entry carries
slotMap(present) == [s \in SlotIds |-> IF s \in present THEN "free" ELSE "absent"]

\* loadSlots with a cache that never expires
loadSlotsNoExpiry(n, force) ==
    IF n.eventType = NoEvent THEN n
    ELSE LET cacheKey == << n.eventType, Today(n.now) >>
             cacheEntry == n.availabilityCache[cacheKey]
             hit == ~force /\ cacheEntry.present
             note == [key |-> cacheKey, force |-> force, hit |-> hit,
                      issued |-> ~hit,
                      first |-> n.eventType \in n.awaitingFetch,
                      live |-> /\ n.storedAt[cacheKey] >= 0
                               /\ n.now < n.storedAt[cacheKey] + CacheTtl,
                      stale |-> hit /\ cacheEntry.stale]
             m == [n EXCEPT !.loads = Append(@, note),
                            !.awaitingFetch = @ \ {n.eventType}]
         IN  IF hit
             THEN [m EXCEPT !.slots = slotMap(cacheEntry.slots)]
             ELSE [m EXCEPT !.isLoadingSlots = TRUE,
                            !.slotReqs = @ (+) one([key |-> cacheKey,
                                                    stale |-> FALSE])]

\* loadSlots({ force })
loadSlots(n, force) ==
    IF n.eventType = NoEvent THEN n
    ELSE LET cacheKey == << n.eventType, Today(n.now) >>
             cacheEntry == n.availabilityCache[cacheKey]
             hit == ~force /\ cacheEntry.present /\ cacheEntry.expiresAt > n.now
             note == [key |-> cacheKey, force |-> force, hit |-> hit,
                      issued |-> ~hit,
                      first |-> n.eventType \in n.awaitingFetch,
                      live |-> /\ n.storedAt[cacheKey] >= 0
                               /\ n.now < n.storedAt[cacheKey] + CacheTtl,
                      stale |-> hit /\ cacheEntry.stale]
             m == [n EXCEPT !.loads = Append(@, note),
                            !.awaitingFetch = @ \ {n.eventType}]
         IN  IF hit
             THEN [m EXCEPT !.slots = slotMap(cacheEntry.slots),
                            !.slotsStale = IF cacheEntry.stale
                                           THEN n.lastBooked[n.eventType] ELSE NoSlot]
             ELSE [m EXCEPT !.isLoadingSlots = TRUE,
                            !.slotReqs = @ (+) one([key |-> cacheKey,
                                                        stale |-> FALSE])]

\* loadRecentTemplates()
loadRecentTemplates(n) ==
    IF n.eventType = NoEvent
    THEN [n EXCEPT !.templateOptions = FALSE, !.activeTemplate = NoTemplate]
    ELSE [n EXCEPT !.templateReqs =
                       @ \cup {[hadActive |-> n.activeTemplate # NoTemplate]}]

\* an effect on [eventType?.id] that resets nothing
eventTypeChangeEffectSkipped(n) == n

\* effect on [eventType?.id]: the slot map and the selection are reset
eventTypeChangeEffect(n) ==
    clearBookingError([n EXCEPT !.slots = EmptySlots, !.selectedSlot = NoSlot,
                                !.activeTemplate = NoTemplate])

\* effect on [eventType?.id, loadRecentTemplates, loadSlots, step]; render is
\* the state the effect's closures were created from, n the state so far
loadingEffect(render, n) ==
    IF resumableReturn(n) THEN n
    ELSE IF render.eventType = NoEvent \/ render.step # SELECT_TIME THEN n
    ELSE LET c == [n EXCEPT !.eventType = render.eventType,
                            !.activeTemplate = render.activeTemplate]
             r == loadRecentTemplates(loadSlots(c, FALSE))
         IN  [r EXCEPT !.eventType = n.eventType, !.activeTemplate = n.activeTemplate]

\* completePayPalBooking up to its first await: the stored record is checked
\* and the capture call is issued
completePayPalBooking(n, pendingBooking) ==
    IF pendingBooking.kind # "valid"
    THEN n
    ELSE [n EXCEPT !.captureReq = [active |-> TRUE, orderId |-> pendingBooking.orderId,
                                   returned |-> NoCapture],
                   !.captureCalls = @ + 1]

\* the PayPal return effect without its one-shot flag
paypalReturnEffectUnguarded(n) ==
    IF ~hasReturnParams(n) THEN n
    ELSE LET h == [n EXCEPT !.paypalReturnHandled = TRUE,
                            !.mountPending = n.pendingStore]
         IN  IF h.urlCancelled
             THEN clearPayPalReturnParams(
                    [clearPendingPayPalBooking(h) EXCEPT !.error = "payment_cancelled"])
             ELSE IF ~hasPending(h)
             THEN clearPayPalReturnParams([h EXCEPT !.error = "session_expired"])
             ELSE IF ~h.urlToken \/ ~h.urlPayerId
             THEN clearPayPalReturnParams([h EXCEPT !.error = "missing_return_details"])
             ELSE completePayPalBooking(
                    [h EXCEPT !.paypalEffectCancelled = "live"], h.pendingStore)

\* the PayPal return effect
paypalReturnEffect(n) ==
    IF n.paypalReturnHandled \/ ~hasReturnParams(n) THEN n
    ELSE LET h == [n EXCEPT !.paypalReturnHandled = TRUE,
                            !.mountPending = n.pendingStore]
         IN  IF h.urlCancelled
             THEN clearPayPalReturnParams(
                    [clearPendingPayPalBooking(h) EXCEPT !.error = "payment_cancelled"])
             ELSE IF ~hasPending(h)
             THEN clearPayPalReturnParams([h EXCEPT !.error = "session_expired"])
             ELSE IF ~h.urlToken \/ ~h.urlPayerId
             THEN clearPayPalReturnParams([h EXCEPT !.error = "missing_return_details"])
             ELSE completePayPalBooking(
                    [h EXCEPT !.paypalEffectCancelled = "live"], h.pendingStore)

\* cleanup of the PayPal return effect: runs when completePayPalBooking is
\* re-created, i.e. when eventType or selectedSlot changed
paypalEffectCleanup(old, n) ==
    IF /\ n.paypalEffectCancelled = "live"
       /\ (old.eventType # n.eventType \/ old.selectedSlot # n.selectedSlot)
    THEN [n EXCEPT !.paypalEffectCancelled = "cancelled"]
    ELSE n

\* the PayPal return effect on a later commit: when completePayPalBooking was
\* re-created the cleanup runs and then the effect itself runs again
paypalEffectRerun(old, n) ==
    IF old.eventType # n.eventType \/ old.selectedSlot # n.selectedSlot
    THEN paypalReturnEffect(paypalEffectCleanup(old, n))
    ELSE n

\* The commits that follow a handler: old is the state before the handler, n
\* the state it set.  The effects of the first commit may set state again
\* (activeTemplate), which re-creates loadRecentTemplates and re-runs the
\* loading effect once more.
Effects(old, n) ==
    LET idChanged == n.eventType # old.eventType
        depsChanged == \/ idChanged
                       \/ n.step # old.step
                       \/ n.activeTemplate # old.activeTemplate
        n0 == paypalEffectRerun(old, n)
        n1 == IF idChanged THEN eventTypeChangeEffect(n0) ELSE n0
        n2 == IF depsChanged THEN loadingEffect(n, n1) ELSE n1
        again == n1.activeTemplate # n.activeTemplate
        n3 == IF again THEN loadingEffect(n2, n2) ELSE n2
    IN  paypalEffectRerun(n, n3)

\* the primed variables are the fields of e; the calls counted stay in bounds
Assign(e) ==
    /\ BagCardinality(e.slotReqs) <= MaxSlotReqs
    /\ BagCardinality(e.eventReqs) <= MaxEventReqs
    /\ BagCardinality(e.attempts) <= MaxAttempts
    /\ phase' = e.phase /\ providedEventType' = e.providedEventType
    /\ eventSlug' = e.eventSlug /\ embedKey' = e.embedKey
    /\ listHasDetails' = e.listHasDetails
    /\ step' = e.step /\ eventType' = e.eventType /\ eventTypes' = e.eventTypes
    /\ selectionMode' = e.selectionMode /\ organization' = e.organization
    /\ slots' = e.slots /\ selectedSlot' = e.selectedSlot
    /\ confirmedBooking' = e.confirmedBooking /\ activeTemplate' = e.activeTemplate
    /\ templateOptions' = e.templateOptions
    /\ error' = e.error /\ alternatives' = e.alternatives /\ loadError' = e.loadError
    /\ isInitializing' = e.isInitializing /\ isLoadingSlots' = e.isLoadingSlots
    /\ isFetchingEvent' = e.isFetchingEvent /\ isSubmitting' = e.isSubmitting
    /\ refreshTick' = e.refreshTick
    /\ availabilityCache' = e.availabilityCache /\ initRequestRef' = e.initRequestRef
    /\ paypalReturnHandled' = e.paypalReturnHandled
    /\ urlToken' = e.urlToken /\ urlPayerId' = e.urlPayerId
    /\ urlCancelled' = e.urlCancelled /\ pendingStore' = e.pendingStore /\ now' = e.now
    /\ inits' = e.inits /\ eventReqs' = e.eventReqs /\ slotReqs' = e.slotReqs
    /\ templateReqs' = e.templateReqs /\ captureReq' = e.captureReq
    /\ attempts' = e.attempts /\ paypalEffectCancelled' = e.paypalEffectCancelled
    /\ captureCalls' = e.captureCalls
    /\ mountPending' = e.mountPending /\ fetchSelection' = e.fetchSelection
    /\ hostCallbacks' = e.hostCallbacks /\ callbacks' = e.callbacks
    /\ loads' = e.loads /\ awaitingFetch' = e.awaitingFetch
    /\ storedAt' = e.storedAt /\ lastBooked' = e.lastBooked
    /\ slotsStale' = e.slotsStale /\ lastOp' = e.lastOp /\ settled' = e.settled
    /\ lastResult' = e.lastResult
    /\ UNCHANGED << idVars, apiVars, formVars >>

\* a handler, then the commits that follow it
Commit(n) == Assign(Effects(S, n))

\* ------------------------------------------------------------------------
\* Identity utilities
\* ------------------------------------------------------------------------

\* scope keys are strings: sequences of characters, '' included
ScopeChars == {"a", "b"}
ScopeKeys == UNION { [1 .. l -> ScopeChars] : l \in 0 .. MaxScopeLen }
DefaultScope == << "default" >>

\* (scopeKey || 'default').toString().slice(0, 180)
safeScope(scopeKey) ==
    LET s == IF scopeKey = << >> THEN DefaultScope ELSE scopeKey
    IN  SubSeq(s, 1, IF Len(s) < ScopeSlice THEN Len(s) ELSE ScopeSlice)

SafeScopes == { safeScope(k) : k \in ScopeKeys }
\* a scope without entry; object: the entry is a JSON object
NoIdEntry == [id |-> 0, expiresAt |-> 0, object |-> FALSE]
NoIdCall == [called |-> FALSE, scope |-> << >>, id |-> 0, at |-> 0,
             isNew |-> FALSE, prevId |-> 0, prevAt |-> 0, threw |-> FALSE]
NoEntries == [s \in SafeScopes |-> NoIdEntry]

\* localStorage as the request ids see it: whether getItem and setItem
\* throw, the shape of the item stored under REQUEST_ID_STORAGE_KEY (none,
\* text that is no JSON, JSON that is no object, an object) and, for an
\* object, its entries
FreshStore ==
    [readThrows |-> FALSE, writeThrows |-> FALSE, shape |-> "none",
     entries |-> NoEntries]

\* parseStoredRequestIds(): {} when localStorage is missing, when getItem
\* or JSON.parse throws, and when the item is missing or no object
parseStoredRequestIds(available, stored) ==
    IF ~available THEN NoEntries
    ELSE IF stored.readThrows THEN NoEntries
    ELSE IF stored.shape # "object" THEN NoEntries
    ELSE stored.entries

\* persistStoredRequestIds(value): a no-op when localStorage is missing or
\* setItem throws
persistStoredRequestIds(available, stored, value) ==
    IF available /\ ~stored.writeThrows
    THEN [stored EXCEPT !.shape = "object", !.entries = value]
    ELSE stored

\* getOrCreateClientRequestId that keeps expired entries
getOrCreateKeepsExpired(available, stored, scopeKey, clock, nextId) ==
    LET scope == safeScope(scopeKey)
        store == parseStoredRequestIds(available, stored)
        existingEntry == store[scope]
    IN  IF existingEntry.id # 0
        THEN [id |-> existingEntry.id, threw |-> FALSE,
              stored |-> persistStoredRequestIds(available, stored, store)]
        ELSE [id |-> nextId, threw |-> FALSE,
              stored |-> persistStoredRequestIds(available, stored,
                  [store EXCEPT ![scope] =
                      [id |-> nextId, expiresAt |-> clock + RequestIdTtl,
                       object |-> TRUE]])]

\* getOrCreateClientRequestId(scopeKey), with ttlMs left at its default;
\* nextId is what createUuid() would return. Nothing in it is outside a
\* try block but operations that cannot throw.
getOrCreateClientRequestId(available, stored, scopeKey, clock, nextId) ==
    LET scope == safeScope(scopeKey)
        store == parseStoredRequestIds(available, stored)
        cleanedStore == [s \in SafeScopes |->
                            IF store[s].object /\ store[s].expiresAt > clock
                            THEN store[s] ELSE NoIdEntry]
        existingEntry == cleanedStore[scope]
    IN  IF existingEntry.id # 0
        THEN [id |-> existingEntry.id, threw |-> FALSE,
              stored |-> persistStoredRequestIds(available, stored, cleanedStore)]
        ELSE [id |-> nextId, threw |-> FALSE,
              stored |-> persistStoredRequestIds(available, stored,
                  [cleanedStore EXCEPT ![scope] =
                      [id |-> nextId, expiresAt |-> clock + RequestIdTtl,
                       object |-> TRUE]])]

\* sessionStorage as the tracking session id sees it, and the calls for a
\* token before any was made
FreshSession ==
    [available |-> TRUE, readThrows |-> FALSE, writeThrows |-> FALSE, item |-> 0]
NoTokenCall == [fn |-> "none", id |-> 0, threw |-> FALSE, drawn |-> 0]

\* getOrCreateTrackingSessionId / getOrCreateContactToken without their try
\* block: what getItem or setItem throws leaves the function
getOrCreateTokenNoCatch(available, readThrows, writeThrows, item, nextId) ==
    IF ~available THEN [id |-> nextId, item |-> item, drawn |-> 1, threw |-> FALSE]
    ELSE IF readThrows THEN [id |-> 0, item |-> item, drawn |-> 0, threw |-> TRUE]
    ELSE IF item # 0 THEN [id |-> item, item |-> item, drawn |-> 0, threw |-> FALSE]
    ELSE IF writeThrows THEN [id |-> 0, item |-> item, drawn |-> 1, threw |-> TRUE]
    ELSE [id |-> nextId, item |-> nextId, drawn |-> 1, threw |-> FALSE]

\* getOrCreateTrackingSessionId() and getOrCreateContactToken(): the two
\* have the same body, over sessionStorage and localStorage. item is what
\* getItem gives (0 for null and for ''); nextId and nextId + 1 are what
\* the first and the second createUuid() would return
getOrCreateToken(available, readThrows, writeThrows, item, nextId) ==
    IF ~available THEN [id |-> nextId, item |-> item, drawn |-> 1, threw |-> FALSE]
    \* getItem throws: catch, return createUuid()
    ELSE IF readThrows THEN [id |-> nextId, item |-> item, drawn |-> 1, threw |-> FALSE]
    ELSE IF item # 0 THEN [id |-> item, item |-> item, drawn |-> 0, threw |-> FALSE]
    \* setItem throws after next was drawn: catch, return another createUuid()
    ELSE IF writeThrows
    THEN [id |-> nextId + 1, item |-> item, drawn |-> 2, threw |-> FALSE]
    ELSE [id |-> nextId, item |-> nextId, drawn |-> 1, threw |-> FALSE]

\* a caller asks for the request id of scopeKey; createUuid() draws an id no
\* earlier call drew
RequestIdOf(scopeKey) ==
        /\ uuidsDrawn < MaxUuids
        /\ LET nextId == uuidsDrawn + 1
               got == getOrCreateClientRequestId(storageAvailable, requestIdStore,
                                                 scopeKey, idNow, nextId)
               scope == safeScope(scopeKey)
               isNew == got.id = nextId
           IN  /\ requestIdStore' = got.stored
               /\ uuidsDrawn' = IF isNew THEN nextId ELSE uuidsDrawn
               /\ lastIdCall' = [called |-> TRUE, scope |-> scope, id |-> got.id,
                                 at |-> idNow, isNew |-> isNew, threw |-> got.threw,
                                 prevId |-> minted[scope].id,
                                 prevAt |-> minted[scope].at]
               /\ minted' = IF isNew
                            THEN [minted EXCEPT ![scope] = [id |-> got.id, at |-> idNow]]
                            ELSE minted
        /\ UNCHANGED << storageAvailable, idNow, sessionStore, contactItem, lastToken >>

\* a caller asks for the request id of some scope
RequestId == \E scopeKey \in ScopeKeys : RequestIdOf(scopeKey)

NoneIssued == [k \in ScopeKeys |-> 0]

\* resolveSubmissionMeta of a booking submission: the scope key is the join
\* of 'sdk', the embed key, the event type id, the slot's start and end and
\* the guest email, in that order, so that the email is the tail of the key
SubmissionRequestId ==
    \E requestScope \in ScopeKeys :
        /\ RequestIdOf(requestScope)
        /\ issued' = [issued EXCEPT ![requestScope] = lastIdCall'.id]

\* a caller asks for the tracking session id
TrackingSessionId ==
    /\ uuidsDrawn + 2 <= MaxUuids
    /\ LET got == getOrCreateToken(sessionStore.available, sessionStore.readThrows,
                                   sessionStore.writeThrows, sessionStore.item,
                                   uuidsDrawn + 1)
       IN  /\ sessionStore' = [sessionStore EXCEPT !.item = got.item]
           /\ uuidsDrawn' = uuidsDrawn + got.drawn
           /\ lastToken' = [fn |-> "trackingSession", id |-> got.id,
                            threw |-> got.threw, drawn |-> got.drawn]
    /\ UNCHANGED << storageAvailable, requestIdStore, idNow, lastIdCall, minted,
                    contactItem >>

\* a caller asks for the contact token
ContactToken ==
    /\ uuidsDrawn + 2 <= MaxUuids
    /\ LET got == getOrCreateToken(storageAvailable, requestIdStore.readThrows,
                                   requestIdStore.writeThrows, contactItem,
                                   uuidsDrawn + 1)
       IN  /\ contactItem' = got.item
           /\ uuidsDrawn' = uuidsDrawn + got.drawn
           /\ lastToken' = [fn |-> "contactToken", id |-> got.id,
                            threw |-> got.threw, drawn |-> got.drawn]
    /\ UNCHANGED << storageAvailable, requestIdStore, idNow, lastIdCall, minted,
                    sessionStore >>

\* Date.now() advances
IdTick ==
    /\ idNow < MaxIdTime
    /\ idNow' = idNow + 1
    /\ lastIdCall' = NoIdCall
    /\ UNCHANGED << storageAvailable, requestIdStore, uuidsDrawn, minted,
                    sessionStore, contactItem, lastToken >>

\* the identity utilities before any call
InitIds(available) ==
    /\ storageAvailable = available
    /\ requestIdStore = FreshStore
    /\ idNow = 0 /\ uuidsDrawn = 0
    /\ lastIdCall = NoIdCall
    /\ sessionStore = FreshSession /\ contactItem = 0 /\ lastToken = NoTokenCall
    /\ minted = [s \in SafeScopes |-> [id |-> 0, at |-> 0]]

\* ------------------------------------------------------------------------
\* API client
\* ------------------------------------------------------------------------

\* error.status of an error that carries none (a rejected fetch)
NoStatus == -1
\* err.retryAfter when neither the body nor the header gives one (null)
NoRetryAfter == 0
NoApiError == [status |-> NoStatus, code |-> "none", retryAfter |-> NoRetryAfter]
NoOutcome == [kind |-> "none", body |-> "none", error |-> NoApiError]
NoHeader == [form |-> "none", n |-> 0]

\* Retry-After headers: none, delay-seconds, an HTTP date (n: the
\* milliseconds from now to that date), or text that is neither
RetryAfterHeaders ==
    {NoHeader, [form |-> "garbage", n |-> 0]}
        \cup [form : {"seconds"}, n : {0, 1, 3}]
        \cup [form : {"date"}, n : {-500, 1, 1500}]

\* what one fetch can come to: a rejection (network failure), or a response
\* with its status, its JSON body (a tag, and the body's retryAfter field in
\* seconds, 0 when it has none) and its Retry-After header
NetworkFailure ==
    [kind |-> "network", status |-> NoStatus, body |-> "none",
     bodyRetryAfter |-> 0, header |-> NoHeader]
Responses ==
    {NetworkFailure}
        \cup [kind : {"http"}, status : {200}, body : {"b1", "b2"},
              bodyRetryAfter : {0}, header : {NoHeader}]
        \cup [kind : {"http"}, status : {400, 404, 500, 503}, body : {"e1"},
              bodyRetryAfter : {0}, header : {NoHeader}]
        \cup [kind : {"http"}, status : {429}, body : {"e1"},
              bodyRetryAfter : {0, 2}, header : RetryAfterHeaders]

\* Math.random() * 350: the ends of [0, 350)
Jitters == {0, JitterRange - 1}

\* Math.pow(2, k)
RECURSIVE Pow2(_)
Pow2(k) == IF k = 0 THEN 1 ELSE 2 * Pow2(k - 1)

\* calculateBackoff(attempt), jitter being Math.random() * 350
calculateBackoff(att, jitter) ==
    LET delay == IF BaseDelay * Pow2(att) < MaxDelay
                 THEN BaseDelay * Pow2(att) ELSE MaxDelay
    IN  delay + jitter

\* parseRetryAfterHeader that reads delay-seconds as milliseconds already
parseRetryAfterAsMs(value) ==
    IF value.form = "seconds" /\ value.n > 0 THEN (value.n + 999) \div 1000
    ELSE IF value.form = "date" /\ value.n > 0 THEN (value.n + 999) \div 1000
    ELSE NoRetryAfter

\* parseRetryAfterHeader(value): seconds, or NoRetryAfter for null
parseRetryAfterHeader(value) ==
    IF value.form = "none" THEN NoRetryAfter
    ELSE IF value.form = "seconds" /\ value.n > 0 THEN value.n
    ELSE IF value.form = "date" /\ value.n > 0 THEN (value.n + 999) \div 1000
    ELSE NoRetryAfter

\* normalizeError(response, data)
normalizeError(response) ==
    [status |-> response.status, code |-> "none",
     retryAfter |-> IF response.bodyRetryAfter # 0 THEN response.bodyRetryAfter
                    ELSE parseRetryAfterHeader(response.header)]

responseOk(response) == response.status >= 200 /\ response.status <= 299

\* error?.status >= 400 && error?.status < 500 && error?.status !== 429
isClientError(err) == err.status >= 400 /\ err.status < 500 /\ err.status # 429

NoWait == [ms |-> 0, by |-> "none"]
Failed(err) == [kind |-> "error", body |-> "none", error |-> err]

\* navigator: missing (no typeof navigator), or its onLine flag
Connectivity == {"no_navigator", "online", "offline"}

\* request() that goes to the network whatever navigator.onLine says
requestStartBlind(conn) ==
    [phase |-> "fetching", fetches |-> 1, outcome |-> NoOutcome]

\* request(): the offline test made before the loop
requestStart(conn) ==
    IF conn = "offline"
    THEN [phase |-> "done", fetches |-> 0,
          outcome |-> Failed([status |-> 0, code |-> "OFFLINE",
                              retryAfter |-> NoRetryAfter])]
    ELSE [phase |-> "fetching", fetches |-> 1, outcome |-> NoOutcome]

\* the loop body of request() that retries whatever the attempt count
onResponseNoBudget(att, last, response, jitter) ==
    IF response.kind = "http" /\ responseOk(response)
    THEN [phase |-> "done", wait |-> NoWait, lastError |-> last,
          outcome |-> [kind |-> "body", body |-> response.body, error |-> NoApiError]]
    ELSE [phase |-> "sleeping",
          wait |-> [ms |-> calculateBackoff(att, jitter), by |-> "backoff"],
          lastError |-> normalizeError(response), outcome |-> NoOutcome]

\* the loop body of request() that treats client errors like server errors
onResponseRetriesClientErrors(att, last, response, jitter) ==
    LET err == normalizeError(response)
    IN  IF response.kind = "http" /\ responseOk(response)
        THEN [phase |-> "done", wait |-> NoWait, lastError |-> last,
              outcome |-> [kind |-> "body", body |-> response.body, error |-> NoApiError]]
        ELSE IF att < MaxRetries
        THEN [phase |-> "sleeping",
              wait |-> [ms |-> calculateBackoff(att, jitter), by |-> "backoff"],
              lastError |-> err, outcome |-> NoOutcome]
        ELSE [phase |-> "done", wait |-> NoWait, lastError |-> err,
              outcome |-> Failed(err)]

\* request(): the loop body once fetch has settled, with attempt = att and
\* lastError = last; jitter is what Math.random() * 350 gives if it is asked
onResponse(att, last, response, jitter) ==
    LET err == IF response.kind = "network"
                 THEN [status |-> NoStatus, code |-> "network", retryAfter |-> NoRetryAfter]
                 ELSE normalizeError(response)
        \* catch (error)
        caught ==
            IF isClientError(err)
            THEN [phase |-> "done", wait |-> NoWait, lastError |-> err,
                  outcome |-> Failed(err)]
            ELSE IF att < MaxRetries
            THEN [phase |-> "sleeping",
                  wait |-> [ms |-> calculateBackoff(att, jitter), by |-> "backoff"],
                  lastError |-> err, outcome |-> NoOutcome]
            ELSE [phase |-> "done", wait |-> NoWait, lastError |-> err,
                  outcome |-> Failed(err)]
    IN  IF response.kind = "network" THEN caught
        ELSE IF responseOk(response)
        THEN [phase |-> "done", wait |-> NoWait, lastError |-> last,
              outcome |-> [kind |-> "body", body |-> response.body, error |-> NoApiError]]
        ELSE IF response.status = 429 /\ att < MaxRetries
        THEN [phase |-> "sleeping",
              wait |-> IF err.retryAfter # NoRetryAfter
                       THEN [ms |-> err.retryAfter * 1000, by |-> "retryAfter"]
                       ELSE [ms |-> calculateBackoff(att, jitter), by |-> "backoff"],
              lastError |-> last, outcome |-> NoOutcome]
        ELSE caught

\* a caller calls one of the client's methods
Request ==
    /\ apiPhase = "idle"
    /\ LET r == requestStart(online)
       IN  /\ apiPhase' = r.phase
           /\ fetches' = r.fetches
           /\ callResult' = r.outcome
    /\ UNCHANGED << online, apiAttempt, lastError, waits, responses >>

\* the fetch in flight settles; a retry starts its sleep
FetchSettles ==
    \E response \in Responses, jitter \in Jitters :
        /\ apiPhase = "fetching"
        /\ LET r == onResponse(apiAttempt, lastError, response, jitter)
           IN  /\ apiPhase' = r.phase
               /\ lastError' = r.lastError
               /\ callResult' = r.outcome
               /\ waits' = IF r.phase = "sleeping" THEN Append(waits, r.wait) ELSE waits
        /\ responses' = Append(responses, response)
        /\ UNCHANGED << online, apiAttempt, fetches >>

\* the sleep ends: attempt += 1, and the loop fetches again or gives up
SleepDone ==
    /\ apiPhase = "sleeping"
    /\ apiAttempt' = apiAttempt + 1
    /\ IF apiAttempt + 1 <= MaxRetries
       THEN /\ apiPhase' = "fetching"
            /\ fetches' = fetches + 1
            /\ callResult' = callResult
       ELSE /\ apiPhase' = "done"
            /\ fetches' = fetches
            /\ callResult' = Failed(lastError)
    /\ UNCHANGED << online, lastError, waits, responses >>

\* the client before any call
InitApi(conn) ==
    /\ online = conn /\ apiPhase = "idle"
    /\ apiAttempt = 0 /\ lastError = NoApiError /\ fetches = 0
    /\ waits = << >> /\ responses = << >> /\ callResult = NoOutcome

\* ------------------------------------------------------------------------
\* BookingForm of a paid event (PaymentCheckout.js)
\* ------------------------------------------------------------------------
Payloads == {"p1", "p2"}
NoPayload == "no_payload"
NoUrl == "no_url"
ApproveUrl == "approve_url"

\* one call in flight: what it was made with
NoCall == [active |-> FALSE, payload |-> NoPayload, id |-> 0]

\* the value under PAYPAL_PENDING_BOOKING_STORAGE_KEY
NoSessionItem == [orderId |-> 0, payload |-> NoPayload, slot |-> NoSlot, eventType |-> NoEvent]

\* the form before any submission, on a page with or without sessionStorage
FreshCheckout(sessionAvailable) ==
    [ selectedProvider |-> "stripe", isCreatingPayment |-> FALSE,
      pendingPayload |-> NoPayload, showPayment |-> FALSE,
      paymentClientSecret |-> 0, formError |-> FALSE,
      isProcessing |-> FALSE, paymentSuccess |-> FALSE, cardError |-> FALSE,
      resolvedSlot |-> "s1", resolvedEventType |-> "evA",
      sessionAvailable |-> sessionAvailable, sessionItem |-> NoSessionItem,
      location |-> NoUrl, booked |-> FALSE,
      orderReq |-> NoCall, intentReq |-> NoCall, confirmReq |-> NoCall,
      successTimer |-> NoCall, bookingReq |-> NoCall,
      paySubmits |-> 0, orderCalls |-> 0, intentCalls |-> 0, confirmCalls |-> 0,
      bookingCalls |-> << >>, succeeded |-> {}, lastStep |-> "none" ]

\* safeSetSessionItem that lets nothing fail
safeSetSessionItemAlways(available, throws, item, value) == value

\* safeSetSessionItem(key, value): nothing is written without sessionStorage
\* or when setItem throws, and nothing is reported
safeSetSessionItem(available, throws, item, value) ==
    IF ~available \/ throws THEN item ELSE value

\* PaymentForm.handleSubmit calling onSuccess whatever confirmCardPayment returned
paymentConfirmedAlways(outcome) == outcome # "throws"

\* PaymentForm.handleSubmit: onSuccess is called for a result without error
\* whose paymentIntent.status is 'succeeded'
paymentConfirmed(outcome) == outcome = "succeeded"

\* the provider buttons of the form
SelectProvider ==
    \E p \in {"stripe", "paypal"} :
        /\ checkout.location = NoUrl /\ ~checkout.booked /\ ~checkout.showPayment
        /\ p # checkout.selectedProvider
        /\ checkout' = [checkout EXCEPT !.selectedProvider = p, !.lastStep = "provider"]

\* handleSubmit of the form, then submitOrStartPayment up to its first await;
\* the submit button is disabled while a payment is created or a booking is
\* submitted, and the payment modal covers the form
SubmitForPayment ==
    \E payload \in Payloads :
        /\ checkout.location = NoUrl /\ ~checkout.booked
        /\ ~checkout.isCreatingPayment /\ ~checkout.showPayment
        /\ ~checkout.bookingReq.active
        /\ checkout.paySubmits < MaxPaySubmits
        /\ LET c == [checkout EXCEPT !.isCreatingPayment = TRUE,
                                     !.pendingPayload = payload,
                                     !.formError = FALSE,
                                     !.paySubmits = @ + 1,
                                     !.lastStep = "submit"]
           IN  checkout' =
                 IF c.selectedProvider = "paypal"
                 THEN [c EXCEPT !.orderReq = [active |-> TRUE, payload |-> payload,
                                              id |-> c.orderCalls + 1],
                                !.orderCalls = @ + 1]
                 ELSE [c EXCEPT !.intentReq = [active |-> TRUE, payload |-> payload,
                                               id |-> c.intentCalls + 1],
                                !.intentCalls = @ + 1]

\* submitOrStartPayment after createPayPalOrder: the record is written, then
\* the browser is sent to the approval URL
PayPalOrderResponse ==
    \E outcome \in {"created", "incomplete", "throws"}, setItemThrows \in BOOLEAN,
       assignThrows \in BOOLEAN :
        /\ checkout.orderReq.active
        /\ LET r == checkout.orderReq
               c == [checkout EXCEPT !.orderReq = NoCall, !.isCreatingPayment = FALSE,
                                     !.lastStep = "order"]
               record == [orderId |-> r.id, payload |-> r.payload,
                          slot |-> c.resolvedSlot, eventType |-> c.resolvedEventType]
           IN  checkout' =
                 IF outcome # "created"
                 THEN [c EXCEPT !.formError = TRUE]
                 ELSE [c EXCEPT
                         !.sessionItem = safeSetSessionItem(c.sessionAvailable,
                                             setItemThrows, @, record),
                         !.location = IF assignThrows THEN @ ELSE ApproveUrl]

\* submitOrStartPayment after createPaymentIntent
PaymentIntentResponse ==
    \E outcome \in {"secret", "no_secret", "throws"} :
        /\ checkout.intentReq.active
        /\ LET r == checkout.intentReq
               c == [checkout EXCEPT !.intentReq = NoCall, !.isCreatingPayment = FALSE,
                                     !.lastStep = "intent"]
           IN  checkout' =
                 IF outcome # "secret"
                 THEN [c EXCEPT !.formError = TRUE]
                 ELSE [c EXCEPT !.paymentClientSecret = r.id, !.showPayment = TRUE]

\* PaymentForm.handleSubmit up to stripe.confirmCardPayment; the form is
\* rendered while the modal is open with a client secret and no success yet
CardSubmit ==
    /\ checkout.location = NoUrl /\ ~checkout.booked
    /\ checkout.showPayment /\ checkout.paymentClientSecret # 0
    /\ ~checkout.paymentSuccess /\ ~checkout.isProcessing
    /\ checkout.confirmCalls < MaxCardSubmits
    /\ checkout' = [checkout EXCEPT
                       !.isProcessing = TRUE, !.cardError = FALSE,
                       !.confirmCalls = @ + 1,
                       !.confirmReq = [active |-> TRUE, payload |-> checkout.pendingPayload,
                                       id |-> checkout.paymentClientSecret],
                       !.lastStep = "card"]

\* PaymentForm.handleSubmit after stripe.confirmCardPayment: on success
\* PaymentCheckout arms the timer that calls handlePaymentSuccess
ConfirmResponse ==
    \E outcome \in {"error", "succeeded", "processing", "throws"} :
        /\ checkout.confirmReq.active
        /\ LET r == checkout.confirmReq
               c == [checkout EXCEPT !.confirmReq = NoCall, !.isProcessing = FALSE,
                                     !.lastStep = outcome]
           IN  checkout' =
                 IF paymentConfirmed(outcome)
                 THEN [c EXCEPT !.paymentSuccess = TRUE, !.successTimer = r,
                                !.succeeded = IF outcome = "succeeded"
                                              THEN @ \cup {r.id} ELSE @]
                 ELSE [c EXCEPT !.cardError = TRUE]

\* handlePaymentSuccess(paymentIntent) up to submitPayload; pendingPayload is
\* the one of the render the form was submitted from
handlePaymentSuccess ==
    /\ checkout.successTimer.active
    /\ LET t == checkout.successTimer
           c == [checkout EXCEPT !.successTimer = NoCall, !.lastStep = "timer"]
       IN  checkout' =
             IF t.payload = NoPayload
             THEN [c EXCEPT !.showPayment = FALSE]
             ELSE [c EXCEPT !.bookingReq = t,
                            !.bookingCalls = Append(@, [payload |-> t.payload,
                                                        payment_intent_id |-> t.id])]

\* handlePaymentSuccess after submitPayload; a booking that succeeded takes
\* the widget to its success step and the form is gone
PaidBookingResponse ==
    \E ok \in BOOLEAN :
        /\ checkout.bookingReq.active
        /\ LET c == [checkout EXCEPT !.bookingReq = NoCall, !.lastStep = "booking"]
           IN  checkout' =
                 IF ok
                 THEN [c EXCEPT !.showPayment = FALSE, !.paymentClientSecret = 0,
                                !.pendingPayload = NoPayload, !.booked = TRUE]
                 ELSE [c EXCEPT !.formError = TRUE]

\* the close button and the backdrop of the modal, inert while processing
handlePaymentClose ==
    /\ checkout.location = NoUrl /\ ~checkout.booked
    /\ checkout.showPayment /\ ~checkout.isProcessing
    /\ checkout' = [checkout EXCEPT !.showPayment = FALSE, !.paymentClientSecret = 0,
                                    !.lastStep = "close"]

\* ------------------------------------------------------------------------
\* BookingForm on a conflict error (PaymentCheckout.js)
\* ------------------------------------------------------------------------
\* what the suggestion service answers with when it answers with a list
ServiceList == << [slot |-> "X", confidenceScore |-> 90, explanation |-> "service"] >>

\* the alternatives a conflict error can carry, in the order it carries them
AlternativeLists ==
    { << >>, << "A" >>, << "B" >>, << "A", "B" >>, << "B", "A" >>,
      << "A", "B", "C" >>, << "C", "B", "A" >>, << "B", "C", "A" >>,
      << "A", "B", "C", "D" >>, << "A", "B", "C", "D", "E" >>,
      << "E", "D", "C", "B", "A" >> }

\* the form when the conflict error arrives: getConflictSuggestions is a
\* function of the actions or is not
FreshResolver(alts, hasService) ==
    [ resolvedAlternatives |-> alts, hasService |-> hasService,
      showConflictResolver |-> FALSE, conflictSuggestions |-> << >>,
      bestSuggestion |-> << >>, isLoadingSuggestions |-> FALSE,
      depsChanged |-> TRUE, activeCall |-> 0, inFlight |-> {}, calls |-> 0,
      lastSource |-> "none" ]

\* toFallbackSuggestions without the floor of its score
toFallbackSuggestionsNoFloor(alts) ==
    [ index \in 1 .. Len(alts) |->
        [slot |-> alts[index],
         confidenceScore |-> 75 - ((index - 1) * 10),
         explanation |-> "Available alternative slot"] ]

\* toFallbackSuggestions(): map over the alternatives, index from 0 in the
\* source and from 1 here
toFallbackSuggestions(alts) ==
    [ index \in 1 .. Len(alts) |->
        [slot |-> alts[index],
         confidenceScore |-> IF 75 - ((index - 1) * 10) > 40
                             THEN 75 - ((index - 1) * 10) ELSE 40,
         explanation |-> "Available alternative slot"] ]

\* fallbackSuggestions[0] || null
firstOrNone(suggestions) ==
    IF Len(suggestions) > 0 THEN << suggestions[1] >> ELSE << >>

\* The suggestion effect with shouldLoadSuggestions true.  Its dependencies
\* include the state it sets, so it runs again after each commit that gave
\* one of them a new value or a new array; the cleanup of the run before
\* makes the call of that run stale.
SuggestionsEffect ==
    /\ resolver.depsChanged
    /\ resolver.calls < MaxSuggestionCalls
    /\ LET r == [resolver EXCEPT !.showConflictResolver = TRUE, !.activeCall = 0]
           fallbackSuggestions == toFallbackSuggestions(r.resolvedAlternatives)
       IN  resolver' =
             IF ~r.hasService
             THEN [r EXCEPT !.conflictSuggestions = fallbackSuggestions,
                            !.bestSuggestion = firstOrNone(fallbackSuggestions),
                            !.calls = @ + 1,
                            !.lastSource = "fallback",
                            !.depsChanged = TRUE]
             ELSE [r EXCEPT !.isLoadingSuggestions = TRUE,
                            !.calls = @ + 1,
                            !.activeCall = r.calls + 1,
                            !.inFlight = @ \cup {r.calls + 1},
                            !.depsChanged = \/ ~resolver.showConflictResolver
                                            \/ ~resolver.isLoadingSuggestions]

\* getConflictSuggestions settles: then or catch, and finally
SuggestionsResponse ==
    \E call \in resolver.inFlight, outcome \in {"list", "empty", "not_array", "throws"} :
        LET r == [resolver EXCEPT !.inFlight = @ \ {call}]
            fallbackSuggestions == toFallbackSuggestions(r.resolvedAlternatives)
        IN  resolver' =
              IF call # r.activeCall THEN r
              ELSE IF outcome = "list"
              THEN [r EXCEPT !.conflictSuggestions = ServiceList,
                             !.bestSuggestion = firstOrNone(ServiceList),
                             !.isLoadingSuggestions = FALSE,
                             !.lastSource = "service",
                             !.depsChanged = TRUE]
              ELSE [r EXCEPT !.conflictSuggestions = fallbackSuggestions,
                             !.bestSuggestion = firstOrNone(fallbackSuggestions),
                             !.isLoadingSuggestions = FALSE,
                             !.lastSource = "fallback",
                             !.depsChanged = TRUE]

\* ------------------------------------------------------------------------
\* Custom form: visibility and validation (CustomFormRenderer.js)
\* ------------------------------------------------------------------------
\* strings are sequences of characters
StrEmpty == << >>
StrYes == << "y", "e", "s" >>
StrYesCapital == << "Y", "e", "s" >>
StrYe == << "y", "e" >>
StrNo == << "n", "o" >>
StrEmail == << "a", "@", "b", ".", "c" >>

\* an answer: undefined, a string, or an array of strings
Absent == [kind |-> "absent", str |-> StrEmpty, items |-> << >>]
Str(x) == [kind |-> "string", str |-> x, items |-> << >>]
Arr(xs) == [kind |-> "array", str |-> StrEmpty, items |-> xs]

FieldIds == {"F1", "F2"}
NoAnswers == [f \in FieldIds |-> Absent]
NoSchema == << >>
NoValidation == [done |-> FALSE, isValid |-> FALSE, errors |-> [f \in FieldIds |-> "none"]]
NoConditional == [present |-> FALSE, show |-> FALSE, isArray |-> FALSE, conditions |-> << >>]

\* String.prototype.toLowerCase on the characters used
toLowerCase(x) == [i \in DOMAIN x |-> IF x[i] = "Y" THEN "y" ELSE x[i]]

\* String.prototype.includes
includes(x, sub) ==
    \E i \in 0 .. (Len(x) - Len(sub)) : SubSeq(x, i + 1, i + Len(sub)) = sub

\* Array.prototype.join(',')
RECURSIVE join(_)
join(xs) ==
    IF Len(xs) = 0 THEN StrEmpty
    ELSE IF Len(xs) = 1 THEN xs[1]
    ELSE xs[1] \o << "," >> \o join(Tail(xs))

\* Boolean(answer): undefined and '' are falsy, every array is truthy
truthy(answer) ==
    \/ answer.kind = "array"
    \/ answer.kind = "string" /\ answer.str # StrEmpty

\* String(answer || '')
asString(answer) ==
    IF ~truthy(answer) THEN StrEmpty
    ELSE IF answer.kind = "array" THEN join(answer.items)
    ELSE answer.str

\* Array.prototype.includes on an array of strings
member(xs, x) == \E i \in DOMAIN xs : xs[i] = x

\* one condition of a rule against the answers
conditionHolds(condition, ans) ==
    LET answer == ans[condition.fieldId]
    IN  CASE condition.operator = "equals" ->
               IF answer.kind = "array" THEN member(answer.items, condition.value)
               ELSE asString(answer) = condition.value
          [] condition.operator = "not_equals" ->
               IF answer.kind = "array" THEN ~member(answer.items, condition.value)
               ELSE asString(answer) # condition.value
          [] condition.operator = "contains" ->
               includes(toLowerCase(asString(answer)), toLowerCase(condition.value))
          [] condition.operator = "is_empty" ->
               IF answer.kind = "array" THEN Len(answer.items) = 0
               ELSE ~truthy(answer)
          [] condition.operator = "is_not_empty" ->
               IF answer.kind = "array" THEN Len(answer.items) > 0
               ELSE truthy(answer)
          [] OTHER -> TRUE

\* isFieldVisible with some() in the place of every()
isFieldVisibleAny(field, ans) ==
    IF ~field.conditional.present \/ ~field.conditional.show THEN TRUE
    ELSE LET conditions == IF field.conditional.isArray
                           THEN field.conditional.conditions ELSE << >>
         IN  IF Len(conditions) = 0 THEN TRUE
             ELSE \E i \in DOMAIN conditions : conditionHolds(conditions[i], ans)

\* isFieldVisible(field, answers)
isFieldVisible(field, ans) ==
    IF ~field.conditional.present \/ ~field.conditional.show THEN TRUE
    ELSE LET conditions == IF field.conditional.isArray
                           THEN field.conditional.conditions ELSE << >>
         IN  IF Len(conditions) = 0 THEN TRUE
             ELSE \A i \in DOMAIN conditions : conditionHolds(conditions[i], ans)

\* /^[^\s@]+@[^\s@]+\.[^\s@]+$/ on the characters used
emailRegex(x) ==
    /\ Cardinality({ i \in DOMAIN x : x[i] = "@" }) = 1
    /\ \A i \in DOMAIN x : x[i] # " "
    /\ \E i, j \in DOMAIN x :
          x[i] = "@" /\ x[j] = "." /\ 1 < i /\ i + 1 < j /\ j < Len(x)

\* the error of one field, "none" when it has none
fieldError(field, ans) ==
    LET value == ans[field.id]
    IN  IF field.required /\ (~truthy(value) \/ (value.kind = "array" /\ Len(value.items) = 0))
        THEN "required"
        ELSE IF ~truthy(value) THEN "none"
        ELSE IF field.type = "email" /\ ~(value.kind = "string" /\ emailRegex(value.str))
        THEN "invalid_email"
        ELSE "none"

\* validateFormAnswers that skips no field
validateFormAnswersAllFields(schema, ans) ==
    LET errors == [f \in FieldIds |->
                     IF \E i \in DOMAIN schema : schema[i].id = f
                     THEN LET field == schema[CHOOSE i \in DOMAIN schema : schema[i].id = f]
                          IN  fieldError(field, ans)
                     ELSE "none"]
    IN  [done |-> TRUE, isValid |-> \A f \in FieldIds : errors[f] = "none", errors |-> errors]

\* validateFormAnswers(formSchema, answers)
validateFormAnswers(schema, ans) ==
    LET errors == [f \in FieldIds |->
                     IF \E i \in DOMAIN schema : schema[i].id = f
                     THEN LET field == schema[CHOOSE i \in DOMAIN schema : schema[i].id = f]
                          IN  IF ~isFieldVisible(field, ans) THEN "none"
                              ELSE fieldError(field, ans)
                     ELSE "none"]
    IN  [done |-> TRUE, isValid |-> \A f \in FieldIds : errors[f] = "none", errors |-> errors]

\* the guest edits one answer (handleChange of the renderer)
handleChange ==
    \E f \in FieldIds,
       value \in {Absent, Str(StrEmpty), Str(StrYes), Str(StrYesCapital), Str(StrNo),
                  Str(StrEmail), Arr(<< >>), Arr(<< StrYes >>), Arr(<< StrNo, StrYes >>)} :
        /\ formSchema # NoSchema
        /\ f = "F2" => value \in {Absent, Str(StrEmpty), Str(StrYes), Str(StrEmail), Arr(<< >>)}
        /\ answers[f] # value
        /\ answers' = [answers EXCEPT ![f] = value]
        /\ validation' = NoValidation
        /\ UNCHANGED formSchema

\* handleSubmit of the booking form calling validateFormAnswers
ValidateForm ==
    /\ formSchema # NoSchema
    /\ ~validation.done
    /\ validation' = validateFormAnswers(formSchema, answers)
    /\ UNCHANGED << formSchema, answers >>

\* the forms are idle while the provider, the identity utilities or the API
\* client are explored
\* ------------------------------------------------------------------------
\* Booking errors (normalizeBookingError and the catch block that uses it)
\* ------------------------------------------------------------------------

\* error.code of a rejected createBooking, "UNKNOWN" for any other code
BookingErrorCodes == {"OFFLINE", "SLOT_CONFLICT", "SLOT_LOCKED", "TEMPLATE_INVALID",
                      "NO_SAVED_TEMPLATE", "UNKNOWN"}

\* error.alternatives and error.suggestions: not an array, or an array
ErrorLists == {Absent, Arr(<< >>), Arr(<< "x" >>), Arr(<< "x", "y" >>)}

\* the errors createBooking or the before-book hook can reject with
BookingErrors ==
    [code : BookingErrorCodes, is429 : BOOLEAN,
     alternatives : ErrorLists, suggestions : ErrorLists]

NoFailure == [failed |-> FALSE,
              error |-> [code |-> "UNKNOWN", is429 |-> FALSE,
                         alternatives |-> Absent, suggestions |-> Absent],
              alternatives |-> << >>, templateFallbackSuggestions |-> << >>]

\* Array.isArray(x) ? x : []
arrayOrEmpty(x) == IF x.kind = "array" THEN x ELSE Arr(<< >>)

\* normalizeBookingError(error): the spread keeps every field of the error
\* that the branch does not set
normalizeBookingError(e) ==
    IF e.code = "OFFLINE"
    THEN [e EXCEPT !.alternatives = Arr(<< >>)]
    ELSE IF e.is429
    THEN [e EXCEPT !.alternatives = Arr(<< >>)]
    ELSE IF e.code = "SLOT_CONFLICT"
    THEN [e EXCEPT !.alternatives = arrayOrEmpty(@)]
    ELSE IF e.code = "SLOT_LOCKED"
    THEN [e EXCEPT !.alternatives = Arr(<< >>)]
    ELSE IF e.code = "TEMPLATE_INVALID"
    THEN [e EXCEPT !.alternatives = Arr(<< >>), !.suggestions = arrayOrEmpty(@)]
    ELSE IF e.code = "NO_SAVED_TEMPLATE"
    THEN [e EXCEPT !.alternatives = Arr(<< >>)]
    ELSE [e EXCEPT !.alternatives = arrayOrEmpty(@)]

\* the catch block of createBookingForContext for the error thrown
BookingFails ==
    \E e \in BookingErrors :
        LET normalized == normalizeBookingError(e)
        IN  failure' =
              [failed |-> TRUE, error |-> e,
               alternatives |-> normalized.alternatives.items,
               templateFallbackSuggestions |->
                   IF /\ normalized.suggestions.kind = "array"
                      /\ Len(normalized.suggestions.items) > 0
                   THEN normalized.suggestions.items ELSE << >>]

\* ------------------------------------------------------------------------
\* Picking another slot after a conflict (PaymentCheckout.js, provider)
\* ------------------------------------------------------------------------

\* the slot the failed booking was for, and the slots offered instead
PickSlots == {"A", "B", "C"}
PickLists == { << >>, << "A" >>, << "A", "B" >>, << "B", "C" >> }

\* the form on the confirm step with slot S0 selected: the actions carry
\* submitSuggestionFeedback or not, the event type is known or not
FreshPicker(hasFeedbackAction, hasEventType) ==
    [ hasFeedbackAction |-> hasFeedbackAction, hasEventType |-> hasEventType,
      selectedSlot |-> "S0", error |-> NoError, alternatives |-> << >>,
      showConflictResolver |-> FALSE, conflictSuggestions |-> << >>,
      feedbackCalls |-> << >>, feedbackInFlight |-> 0,
      onBookingErrorCalls |-> 0, conflicts |-> 0, lastStep |-> "none" ]

\* createBooking is rejected with SLOT_CONFLICT: the catch block of
\* createBookingForContext, then the suggestion effect of the form
ConflictError ==
    \E alts \in PickLists, suggestions \in PickLists :
        /\ picker.error = NoError
        /\ picker.conflicts < MaxConflicts
        /\ picker' = [picker EXCEPT !.error = "SLOT_CONFLICT",
                                    !.alternatives = alts,
                                    !.showConflictResolver = TRUE,
                                    !.conflictSuggestions = suggestions,
                                    !.onBookingErrorCalls = @ + 1,
                                    !.conflicts = @ + 1,
                                    !.lastStep = "conflict"]

\* a selection that leaves the error and the alternatives shown
selectAlternativeSlotKeepsError(p, alternativeSlot) ==
    [p EXCEPT !.selectedSlot = alternativeSlot]

\* selectAlternativeSlot(alternativeSlot) of the provider
selectAlternativeSlot(p, alternativeSlot) ==
    [p EXCEPT !.selectedSlot = alternativeSlot,
              !.error = NoError, !.alternatives = << >>]

\* handleSelectSuggestion(suggestion): a suggestion card or "Auto-select
\* Best" of the conflict resolver
handleSelectSuggestion ==
    \E i \in 1 .. Len(picker.conflictSuggestions) :
        LET suggestion == picker.conflictSuggestions[i]
            sends == picker.hasFeedbackAction /\ picker.hasEventType
            a == IF sends
                 THEN [picker EXCEPT
                          !.feedbackCalls =
                              Append(@, [originalSlot |-> picker.selectedSlot,
                                         suggestedSlot |-> suggestion,
                                         accepted |-> TRUE]),
                          !.feedbackInFlight = @ + 1]
                 ELSE picker
            b == [a EXCEPT !.showConflictResolver = FALSE,
                           !.conflictSuggestions = << >>,
                           !.lastStep = "suggestion"]
        IN  /\ picker.showConflictResolver
            /\ Len(picker.feedbackCalls) < MaxFeedbackCalls
            /\ picker' = selectAlternativeSlot(b, suggestion)

\* a button of the list "Available alternatives" under the error
PickAlternative ==
    \E i \in 1 .. Len(picker.alternatives) :
        /\ picker.error # NoError
        /\ picker' = selectAlternativeSlot([picker EXCEPT !.lastStep = "alternative"],
                                           picker.alternatives[i])

\* api.submitSuggestionFeedback settles; the form's catch swallows a rejection
FeedbackResponse ==
    \E outcome \in {"ok", "throws"} :
        /\ picker.feedbackInFlight > 0
        /\ picker' = [picker EXCEPT !.feedbackInFlight = @ - 1,
                                    !.lastStep = IF outcome = "throws"
                                                 THEN "feedback_failed"
                                                 ELSE "feedback_ok"]

\* ------------------------------------------------------------------------
\* Template selector of the booking form (PaymentCheckout.js)
\* ------------------------------------------------------------------------

\* saved templates: T1 and T2 have a UUID for id, TX has another string
TemplateIds == {"T1", "T2", "TX"}
StandardForm == "standard_form"

\* typeof template.id === 'string' && UUID_PATTERN.test(template.id)
\*   ? template.id : ''
safeTemplateId(id) == IF id \in {"T1", "T2"} THEN id ELSE StandardForm

\* the form before its first commit: initialTemplate is the prop or the
\* provider's active template, options the template options in their order,
\* defaultId the option flagged is_default
FreshTemplates(initialTemplate, options, defaultId) ==
    [ initialTemplate |-> initialTemplate, options |-> options,
      defaultId |-> defaultId, mounted |-> FALSE,
      selectedTemplateId |-> StandardForm, templateModified |-> FALSE,
      chosen |-> [made |-> FALSE, id |-> StandardForm],
      submitted |-> [made |-> FALSE, template_id |-> StandardForm] ]

\* applyTemplate(template), as far as the selection goes
applyTemplate(t, id) ==
    IF id = NoTemplate THEN t
    ELSE [t EXCEPT !.selectedTemplateId = safeTemplateId(id),
                   !.templateModified = FALSE]

\* options.find((template) => template.is_default) || options[0]
preferredOption(t) ==
    IF t.defaultId # NoTemplate THEN t.defaultId ELSE t.options[1]

\* effect on [applyTemplate, resolvedInitialTemplate, selectedTemplateId,
\* resolvedTemplateOptions]
templateEffect(t) ==
    IF t.initialTemplate # NoTemplate
    THEN applyTemplate(t, t.initialTemplate)
    ELSE IF t.selectedTemplateId = StandardForm /\ Len(t.options) > 0
    THEN applyTemplate(t, preferredOption(t))
    ELSE t

\* the commits after a handler: the effect runs when selectedTemplateId has
\* changed, and again when its own run changed it
templateCommits(old, t) ==
    LET t1 == IF t.selectedTemplateId # old.selectedTemplateId
              THEN templateEffect(t) ELSE t
    IN  IF t1.selectedTemplateId # t.selectedTemplateId THEN templateEffect(t1) ELSE t1

\* the first commit of the form
TemplatesMount ==
    /\ ~templates.mounted
    /\ LET t == templateEffect([templates EXCEPT !.mounted = TRUE])
       IN  templates' = templateCommits([templates EXCEPT !.mounted = TRUE], t)

\* handleTemplateChange(templateId): the selector, with "Use standard form"
\* and one option per template
handleTemplateChange ==
    \E templateId \in {StandardForm} \cup {templates.options[i] : i \in DOMAIN templates.options} :
        /\ templates.mounted
        /\ LET a == [templates EXCEPT !.selectedTemplateId = templateId,
                                      !.chosen = [made |-> TRUE, id |-> templateId]]
               b == IF templateId = StandardForm
                    THEN [a EXCEPT !.templateModified = FALSE]
                    ELSE applyTemplate(a, templateId)
           IN  templates' = templateCommits(templates, b)

\* markTemplateEdited(): the guest edits a field of the form
TemplateEdited ==
    /\ templates.mounted
    /\ templates.selectedTemplateId # StandardForm
    /\ ~templates.templateModified
    /\ templates' = [templates EXCEPT !.templateModified = TRUE]

\* buildBasePayload() of a submission
TemplateSubmit ==
    /\ templates.mounted
    /\ templates' = [templates EXCEPT !.submitted =
                         [made |-> TRUE, template_id |-> templates.selectedTemplateId]]

InitForm ==
    /\ checkout = FreshCheckout(TRUE) /\ resolver = FreshResolver(<< >>, FALSE)
    /\ formSchema = NoSchema /\ answers = NoAnswers /\ validation = NoValidation
    /\ failure = NoFailure
    /\ picker = FreshPicker(TRUE, TRUE)
    /\ issued = NoneIssued
    /\ templates = FreshTemplates(NoTemplate, << >>, NoTemplate)

\* ------------------------------------------------------------------------
\* Construction and the first commit
\* ------------------------------------------------------------------------

\* props: a provided event type, an event slug, an embed key, or none of them
Setups == { << "evA", FALSE, FALSE >>, << NoEvent, TRUE, FALSE >>,
            << NoEvent, FALSE, TRUE >>, << NoEvent, FALSE, FALSE >> }

\* location.search on load: << token, PayerID, cancelled=true >>
ReturnUrls == { << FALSE, FALSE, FALSE >>, << TRUE, TRUE, FALSE >>,
                << TRUE, FALSE, TRUE >>, << TRUE, FALSE, FALSE >> }

\* sessionStorage on load: nothing, a snapshot written before the redirect
\* (of either event type), or a record that lacks a field
PendingRecords ==
    { NoPending, [NoPending EXCEPT !.kind = "invalid"] } \cup
    { [kind |-> "valid", orderId |-> "ord_1", slot |-> "s1", eventType |-> e] :
        e \in EventIds }

\* a load without callback parameters and with nothing stored
PlainLoad == << << FALSE, FALSE, FALSE >>, NoPending >>

\* the returns from PayPal: approved, cancelled, or with the payer id missing
ReturnLoads ==
    { << u, p >> \in ReturnUrls \X PendingRecords :
        \/ u = << TRUE, TRUE, FALSE >>
        \/ u = << TRUE, FALSE, TRUE >> /\ p.kind \in {"valid", "none"} /\ p.eventType # "evB"
        \/ u = << TRUE, FALSE, FALSE >> /\ p.kind = "valid" /\ p.eventType = "evA" }

\* the state after construction (useState and useRef initial values)
InitProvider(setup, load, details, host) ==
      LET url == load[1]
          pend == load[2]
      IN
        /\ phase = "constructed"
        /\ providedEventType = setup[1] /\ eventSlug = setup[2] /\ embedKey = setup[3]
        /\ listHasDetails = details
        /\ step = IF setup[1] # NoEvent \/ setup[2] THEN SELECT_TIME ELSE SELECT_EVENT
        /\ eventType = setup[1]
        /\ eventTypes = {} /\ selectionMode = "unset" /\ organization = FALSE
        /\ slots = EmptySlots /\ selectedSlot = NoSlot
        /\ confirmedBooking = NoBooking
        /\ activeTemplate = NoTemplate /\ templateOptions = FALSE
        /\ error = NoError /\ alternatives = {} /\ loadError = NoError
        /\ isInitializing = TRUE /\ isLoadingSlots = FALSE
        /\ isFetchingEvent = FALSE /\ isSubmitting = FALSE /\ refreshTick = 0
        /\ availabilityCache = EmptyCache /\ initRequestRef = 0
        /\ paypalReturnHandled = FALSE
        /\ urlToken = url[1] /\ urlPayerId = url[2] /\ urlCancelled = url[3]
        /\ pendingStore = pend /\ now = 0
        /\ inits = {} /\ eventReqs = EmptyBag /\ slotReqs = EmptyBag
        /\ templateReqs = {}
        /\ captureReq = NoCaptureReq /\ attempts = EmptyBag
        /\ paypalEffectCancelled = "unset"
        /\ captureCalls = 0 /\ mountPending = NoPending
        /\ fetchSelection = NoFetchSelection
        /\ hostCallbacks = host /\ callbacks = << >>
        /\ loads = << >> /\ awaitingFetch = {}
        /\ storedAt = [k \in DOMAIN EmptyCache |-> -1]
        /\ lastBooked = [e \in EventIds |-> NoSlot]
        /\ slotsStale = NoSlot /\ lastOp = NoOp /\ settled = NoSettle
        /\ lastResult = NoResult

\* the provider in a host whose booking callbacks return normally
InitWith(setup, load, details) == InitProvider(setup, load, details, ReturningCallbacks)

\* process() after completePayPalBooking returned without a capture call
\* (invalid stored record): a microtask that follows the effects of the commit
paypalInvalidContext(before, n) ==
    IF /\ ~before.paypalReturnHandled /\ n.paypalReturnHandled
       /\ n.paypalEffectCancelled # "unset" /\ ~n.captureReq.active
    THEN IF n.paypalEffectCancelled = "live"
         THEN clearPayPalReturnParams([n EXCEPT !.error = "invalid_paypal_context"])
         ELSE n
    ELSE n

\* cleanup of the initialization effect
cancelInits(n) ==
    [n EXCEPT !.inits = { [i EXCEPT !.cancelled = TRUE] : i \in @ }]

\* initialize() without its check for a resumable PayPal return
initializeIgnoresReturn(n) ==
    LET currentRequestId == n.initRequestRef + 1
        a == clearBookingError([n EXCEPT !.initRequestRef = currentRequestId,
                                         !.isInitializing = TRUE,
                                         !.loadError = NoError])
        request(stage) == [id |-> currentRequestId, stage |-> stage, cancelled |-> FALSE]
    IN  IF a.providedEventType # NoEvent
        THEN [a EXCEPT !.organization = TRUE,
                       !.eventType = a.providedEventType,
                       !.eventTypes = {},
                       !.step = SELECT_TIME,
                       !.isInitializing = FALSE]
        ELSE IF a.eventSlug
        THEN [a EXCEPT !.inits = @ \cup {request("slug")}]
        ELSE IF a.embedKey
        THEN [a EXCEPT !.inits = @ \cup {request("embed")}]
        ELSE [a EXCEPT !.loadError = "missing_setup", !.isInitializing = FALSE]

\* the initialization effect up to the first await of initialize()
initialize(n) ==
    LET currentRequestId == n.initRequestRef + 1
        a == clearBookingError([n EXCEPT !.initRequestRef = currentRequestId,
                                         !.isInitializing = TRUE,
                                         !.loadError = NoError])
        request(stage) == [id |-> currentRequestId, stage |-> stage, cancelled |-> FALSE]
    IN  IF resumableReturn(a)
        THEN [a EXCEPT !.isInitializing = FALSE]
        ELSE IF a.providedEventType # NoEvent
        THEN [a EXCEPT !.organization = TRUE,
                       !.eventType = a.providedEventType,
                       !.eventTypes = {},
                       !.step = SELECT_TIME,
                       !.isInitializing = FALSE]
        ELSE IF a.eventSlug
        THEN [a EXCEPT !.inits = @ \cup {request("slug")}]
        ELSE IF a.embedKey
        THEN [a EXCEPT !.inits = @ \cup {request("embed")}]
        ELSE [a EXCEPT !.loadError = "missing_setup", !.isInitializing = FALSE]

\* The first commit: the four effects run in the order they are declared,
\* with the closures of the first render.
Mount ==
    /\ phase = "constructed"
    /\ LET a == paypalReturnEffect([S EXCEPT !.phase = "mounted"])
           b == initialize(a)
           c == eventTypeChangeEffect(b)
           d == loadingEffect(S, c)
           e == paypalInvalidContext(S, d)
       IN  Assign(e)

\* refreshScheduler(): refreshTick changes, the initialization effect is
\* cleaned up and runs again
RefreshScheduler ==
    /\ phase = "mounted"
    /\ refreshTick < MaxRefresh
    /\ Commit(initialize(cancelInits([S EXCEPT !.refreshTick = @ + 1])))

\* unmounting: the cleanups of the initialization effect and of the PayPal
\* return effect set their cancelled flags
Unmount ==
    /\ phase = "mounted"
    /\ Assign(cancelInits([S EXCEPT !.phase = "unmounted",
                                    !.paypalEffectCancelled =
                                        IF @ = "live" THEN "cancelled" ELSE @]))

\* an attempt that takes itself for current whatever has happened since
initIsCurrentAlways(n, i) == TRUE

\* the provider's state is left alone by a superseded attempt; lastOp records
\* that such an attempt was answered
initIsCurrent(n, i) == ~i.cancelled /\ n.initRequestRef = i.id

\* initialize() after fetchEventTypeBySlug(eventSlug)
InitSlugResponse ==
    \E i \in inits, outcome \in {"loaded", "empty", "throws"} :
        /\ i.stage = "slug"
        /\ LET n == [S EXCEPT !.inits = @ \ {i}]
               superseded == [n EXCEPT !.lastOp = [name |-> "initialize",
                                                   from |-> "superseded"]]
               done == [n EXCEPT !.isInitializing = FALSE]
           IN  Commit(IF ~initIsCurrent(n, i) THEN superseded
                 ELSE IF outcome = "throws"
                 THEN [done EXCEPT !.loadError = "load_failed"]
                 ELSE IF outcome = "empty"
                 THEN [done EXCEPT !.loadError = "event_unavailable"]
                 ELSE [done EXCEPT !.organization = TRUE,
                                   !.eventType = "evA",
                                   !.eventTypes = {},
                                   !.step = SELECT_TIME])

\* what getEmbedEventTypes can return: the list and embed.selection_mode
EmbedLists == { << {}, "multiple" >>, << {"evA"}, "single" >>,
                << {"evA"}, "multiple" >>, << {"evA", "evB"}, "multiple" >>,
                << {"evA", "evB"}, "single" >> }

\* initialize() after api.getEmbedEventTypes
InitEmbedResponse ==
    \E i \in inits, data \in EmbedLists, throws \in BOOLEAN, hasSlug \in BOOLEAN :
        /\ i.stage = "embed"
        /\ throws => (data = << {}, "multiple" >> /\ hasSlug)
        /\ (Cardinality(data[1]) # 1) => hasSlug
        /\ LET n == [S EXCEPT !.inits = @ \ {i}]
               superseded == [n EXCEPT !.lastOp = [name |-> "initialize",
                                                   from |-> "superseded"]]
               done == [n EXCEPT !.isInitializing = FALSE]
               got == [done EXCEPT !.organization = TRUE,
                                   !.selectionMode = data[2],
                                   !.eventTypes = data[1]]
           IN  Commit(IF ~initIsCurrent(n, i) THEN superseded
                 ELSE IF throws
                 THEN [done EXCEPT !.loadError = "load_failed"]
                 ELSE IF Cardinality(data[1]) # 1
                 THEN [got EXCEPT !.step = SELECT_EVENT]
                 ELSE IF hasSlug
                 THEN [got EXCEPT !.isInitializing = TRUE,
                                  !.inits = @ \cup {[i EXCEPT !.stage = "embedEvent"]}]
                 ELSE [got EXCEPT !.eventType = "evA", !.step = SELECT_TIME])

\* initialize() after fetchEventTypeBySlug(firstEvent.slug)
InitEmbedEventResponse ==
    \E i \in inits, outcome \in {"loaded", "empty", "throws"} :
        /\ i.stage = "embedEvent"
        /\ LET n == [S EXCEPT !.inits = @ \ {i}]
               superseded == [n EXCEPT !.lastOp = [name |-> "initialize",
                                                   from |-> "superseded"]]
               done == [n EXCEPT !.isInitializing = FALSE]
           IN  Commit(IF ~initIsCurrent(n, i) THEN superseded
                 ELSE IF outcome = "throws"
                 THEN [done EXCEPT !.loadError = "load_failed"]
                 ELSE [done EXCEPT !.eventType =
                                       IF outcome = "loaded" THEN "evA" ELSE NoEvent,
                                   !.step = SELECT_TIME])

\* ------------------------------------------------------------------------
\* Event selection, slots and templates
\* ------------------------------------------------------------------------

\* SchedulerWidget renders the steps once loading is over and has not failed
widgetShown == loadError = NoError /\ ~isInitializing

\* selectEventType(selected), from the event list of the select-event step;
\* selected either carries its details already or is fetched by slug
SelectEventType ==
    \E selected \in eventTypes :
        /\ phase = "mounted"
        /\ widgetShown
        /\ step = SELECT_EVENT
        /\ LET hasDetails == listHasDetails
               a == [clearBookingError(S) EXCEPT !.templateOptions = FALSE,
                                                 !.activeTemplate = NoTemplate]
           IN  Commit(IF hasDetails
                 THEN [a EXCEPT !.eventType = selected, !.step = SELECT_TIME]
                 ELSE [a EXCEPT !.isFetchingEvent = TRUE,
                                !.eventReqs = @ (+) one([ev |-> selected]),
                                !.fetchSelection =
                                    [last |-> selected,
                                     clean |-> IF a.eventReqs = EmptyBag
                                               THEN TRUE ELSE @.clean]])

\* selectEventType after fetchEventTypeBySlug
EventResponse ==
    \E r \in BagToSet(eventReqs), outcome \in {"loaded", "empty", "throws"} :
        LET n == [S EXCEPT !.eventReqs = @ (-) one(r), !.isFetchingEvent = FALSE,
                           !.fetchSelection.clean = @ /\ outcome = "loaded"]
        IN  Commit(IF outcome = "throws"
              THEN [n EXCEPT !.loadError = "event_details_failed"]
              ELSE [n EXCEPT !.eventType = IF outcome = "loaded" THEN r.ev ELSE NoEvent,
                             !.step = SELECT_TIME])

\* actions.loadSlots({ force })
LoadSlots ==
    \E force \in BOOLEAN :
        /\ phase = "mounted"
        /\ eventType # NoEvent
        /\ Commit(loadSlots(S, force))

\* what the server can answer to a slot request
SlotAnswers == { {"s1", "s2"}, {"s2"} }

\* loadSlots after api.getSlots
SlotsResponse ==
    \E r \in BagToSet(slotReqs), throws \in BOOLEAN, nextSlots \in SlotAnswers :
        /\ throws => nextSlots = {"s2"}
        /\ LET n == [S EXCEPT !.slotReqs = @ (-) one(r), !.isLoadingSlots = FALSE]
           IN  Commit(IF throws
                 THEN [n EXCEPT !.error = "slots_failed"]
                 ELSE [n EXCEPT !.slots = slotMap(nextSlots),
                                !.slotsStale = IF r.stale
                                               THEN n.lastBooked[r.key[1]] ELSE NoSlot,
                                !.storedAt = [@ EXCEPT ![r.key] = n.now],
                                !.availabilityCache =
                                    [@ EXCEPT ![r.key] =
                                        [present |-> TRUE, slots |-> nextSlots,
                                         expiresAt |-> n.now + CacheTtl,
                                         stale |-> r.stale]]])

\* loadRecentTemplates after api.getRecentTemplates
TemplatesResponse ==
    \E r \in templateReqs, outcome \in {"some", "none", "throws"} :
        LET n == [S EXCEPT !.templateReqs = @ \ {r}]
        IN  Commit(IF outcome = "throws"
              THEN [n EXCEPT !.templateOptions = FALSE, !.activeTemplate = NoTemplate]
              ELSE IF outcome = "none"
              THEN [n EXCEPT !.templateOptions = FALSE]
              ELSE [n EXCEPT !.templateOptions = TRUE,
                             !.activeTemplate =
                                 IF r.hadActive THEN @ ELSE "tpl_1"])

\* selectSlot(slot), from the slot picker
SelectSlot ==
    \E s \in SlotIds :
        /\ phase = "mounted"
        /\ widgetShown
        /\ step = SELECT_TIME
        /\ slots[s] # "absent"
        /\ Commit(clearBookingError([S EXCEPT !.selectedSlot = s]))

\* confirmSelectedSlot(), from the slot picker
ConfirmSelectedSlot ==
    /\ phase = "mounted"
    /\ widgetShown
    /\ step = SELECT_TIME
    /\ selectedSlot # NoSlot
    /\ Commit(clearBookingError([S EXCEPT !.step = CONFIRM]))

\* useRecentTemplate(), from the slot picker
UseRecentTemplate ==
    /\ phase = "mounted"
    /\ widgetShown
    /\ step = SELECT_TIME
    /\ selectedSlot # NoSlot
    /\ templateOptions
    /\ Commit(clearBookingError([S EXCEPT !.activeTemplate = "tpl_1", !.step = CONFIRM]))

\* goBack that refuses to leave the confirm step of a single-event embed
goBackPinnedStays(n) ==
    LET m == [n EXCEPT !.lastOp = [name |-> "goBack", from |-> n.step]]
    IN  IF n.step = CONFIRM /\ ~pinned(n)
        THEN clearBookingError([m EXCEPT !.step = SELECT_TIME])
        ELSE IF n.step = SELECT_TIME /\ n.selectionMode # "single"
        THEN clearBookingError([m EXCEPT !.step = SELECT_EVENT,
                                         !.eventType = NoEvent,
                                         !.slots = EmptySlots,
                                         !.selectedSlot = NoSlot,
                                         !.activeTemplate = NoTemplate])
        ELSE m

\* goBack()
goBack(n) ==
    LET m == [n EXCEPT !.lastOp = [name |-> "goBack", from |-> n.step]]
    IN  IF n.step = CONFIRM
        THEN clearBookingError([m EXCEPT !.step = SELECT_TIME])
        ELSE IF n.step = SELECT_TIME /\ n.selectionMode # "single"
        THEN clearBookingError([m EXCEPT !.step = SELECT_EVENT,
                                         !.eventType = NoEvent,
                                         !.slots = EmptySlots,
                                         !.selectedSlot = NoSlot,
                                         !.activeTemplate = NoTemplate])
        ELSE m

\* goBack(): the "Change event" button of the widget's header, the Back
\* button of the booking form, or a host's own call
GoBack ==
    /\ phase = "mounted"
    /\ Commit(goBack(S))

\* restartAfterSuccess that reloads the slots without force
restartWithoutForce(n) ==
    LET a == clearBookingError([n EXCEPT !.confirmedBooking = NoBooking,
                                         !.selectedSlot = NoSlot,
                                         !.activeTemplate = NoTemplate,
                                         !.lastOp = [name |-> "restartAfterSuccess",
                                                     from |-> n.step]])
    IN  IF pinned(n)
        THEN loadSlots([a EXCEPT !.step = SELECT_TIME], FALSE)
        ELSE [a EXCEPT !.step = SELECT_EVENT, !.eventType = NoEvent]

\* restartAfterSuccess()
restartAfterSuccess(n) ==
    LET a == clearBookingError([n EXCEPT !.confirmedBooking = NoBooking,
                                         !.selectedSlot = NoSlot,
                                         !.activeTemplate = NoTemplate,
                                         !.lastOp = [name |-> "restartAfterSuccess",
                                                     from |-> n.step]])
    IN  IF pinned(n)
        THEN loadSlots([a EXCEPT !.step = SELECT_TIME], TRUE)
        ELSE [a EXCEPT !.step = SELECT_EVENT, !.eventType = NoEvent]

\* the Done button of the success screen
RestartAfterSuccess ==
    /\ phase = "mounted"
    /\ widgetShown
    /\ step = SUCCESS /\ confirmedBooking # NoBooking
    /\ Commit(restartAfterSuccess(S))

\* the clock: Date.now() and the calendar day advance
Tick ==
    /\ phase = "mounted"
    /\ now < MaxTime
    /\ Assign([S EXCEPT !.now = @ + 1])

\* ------------------------------------------------------------------------
\* Booking creation and PayPal resumption
\* ------------------------------------------------------------------------

\* createBookingForContext that prefers the live state to the overrides
createBookingLiveFirst(n, slotOverride, eventTypeOverride, via, orderId, captureId) ==
    LET scopedSlot == IF n.selectedSlot # NoSlot THEN n.selectedSlot ELSE slotOverride
        scopedEventType ==
            IF n.eventType # NoEvent THEN n.eventType ELSE eventTypeOverride
        attempt == [slot |-> scopedSlot,
                    ev |-> scopedEventType, stage |-> "meta", via |-> via,
                    orderId |-> orderId, captureId |-> captureId]
    IN  IF scopedSlot = NoSlot \/ scopedEventType = NoEvent
        THEN [n EXCEPT !.lastResult = [returned |-> TRUE, ok |-> FALSE,
                                       code |-> "validation", slot |-> scopedSlot]]
        ELSE markSlotPending(
               clearBookingError([n EXCEPT !.isSubmitting = TRUE,
                                           !.attempts = @ (+) one(attempt)]),
               scopedSlot)

\* createBookingForContext that only asks for an event type
createBookingAnySlot(n, slotOverride, eventTypeOverride, via, orderId, captureId) ==
    LET scopedSlot == IF slotOverride # NoSlot THEN slotOverride ELSE n.selectedSlot
        scopedEventType ==
            IF eventTypeOverride # NoEvent THEN eventTypeOverride ELSE n.eventType
        attempt == [slot |-> scopedSlot,
                    ev |-> scopedEventType, stage |-> "meta", via |-> via,
                    orderId |-> orderId, captureId |-> captureId]
    IN  IF scopedEventType = NoEvent
        THEN [n EXCEPT !.lastResult = [returned |-> TRUE, ok |-> FALSE,
                                       code |-> "validation", slot |-> scopedSlot]]
        ELSE clearBookingError([n EXCEPT !.isSubmitting = TRUE,
                                         !.attempts = @ (+) one(attempt)])

\* createBookingForContext up to its first await; scopedSlot and
\* scopedEventType are the overrides or, without them, the live state
createBookingForContext(n, slotOverride, eventTypeOverride, via, orderId, captureId) ==
    LET scopedSlot == IF slotOverride # NoSlot THEN slotOverride ELSE n.selectedSlot
        scopedEventType ==
            IF eventTypeOverride # NoEvent THEN eventTypeOverride ELSE n.eventType
        attempt == [slot |-> scopedSlot,
                    ev |-> scopedEventType, stage |-> "meta", via |-> via,
                    orderId |-> orderId, captureId |-> captureId]
    IN  IF scopedSlot = NoSlot \/ scopedEventType = NoEvent
        THEN [n EXCEPT !.lastResult = [returned |-> TRUE, ok |-> FALSE,
                                       code |-> "validation", slot |-> scopedSlot]]
        ELSE markSlotPending(
               clearBookingError([n EXCEPT !.isSubmitting = TRUE,
                                           !.attempts = @ (+) one(attempt)]),
               scopedSlot)

\* actions.submitBooking(guestData)
submitBooking(n) ==
    createBookingForContext([n EXCEPT !.lastOp = [name |-> "submitBooking", from |-> n.step]],
                            NoSlot, NoEvent, "live", NoOrder, NoCapture)

\* a host calls actions.submitBooking, whatever is selected
SubmitBooking ==
    /\ phase = "mounted"
    /\ Commit(submitBooking(S))

\* the submit button of the booking form on the confirm step; it is disabled
\* while state.isSubmitting
FormSubmit ==
    /\ phase = "mounted"
    /\ widgetShown
    /\ step = CONFIRM
    /\ ~isSubmitting
    /\ selectedSlot # NoSlot /\ eventType # NoEvent
    /\ Commit(submitBooking(S))

\* the rest of process() and completePayPalBooking once createBookingForContext
\* or the capture has settled; live is the effect's cancelled flag at that time
paypalSettled(n, ok, live) ==
    LET a == IF ok THEN clearPendingPayPalBooking(n) ELSE n
    IN  IF live THEN clearPayPalReturnParams(a) ELSE a

\* the catch and finally blocks of createBookingForContext after
\* revertPendingSlot; message stands for the normalized error, its code
\* included. An exception of onBookingError leaves the function through
\* finally; in a PayPal resumption it reaches the catch block of
\* completePayPalBooking, which calls onBookingError again, and process()
\* ends there.
bookingCaught(m, a, message) ==
    LET f == [m EXCEPT
                  !.error = message, !.alternatives = {},
                  !.settled = [via |-> a.via, ok |-> FALSE],
                  !.lastResult = IF m.hostCallbacks.errorThrows THEN NoResult
                                 ELSE [returned |-> TRUE, ok |-> FALSE,
                                       code |-> message, slot |-> a.slot],
                  !.isSubmitting = FALSE,
                  !.callbacks = Append(@, "error"),
                  !.attempts = @ (-) one(a)]
    IN  IF a.via # "paypal" THEN f
        ELSE IF m.hostCallbacks.errorThrows
        THEN [f EXCEPT !.error = "callback_failed",
                       !.callbacks = Append(@, "error")]
        ELSE paypalSettled(f, FALSE, m.paypalEffectCancelled = "live")

\* the catch block of createBookingForContext without revertPendingSlot
bookingFailedKeepsPending(n, a, message) == bookingCaught(n, a, message)

\* the catch and finally blocks of createBookingForContext
bookingFailed(n, a, message) ==
    bookingCaught(revertPendingSlot(n, a.slot), a, message)

\* createBookingForContext after resolveSubmissionMeta and onBeforeBook: the
\* hook vetoes, or api.createBooking is called with the payload
BookingIssue ==
    \E a \in BagToSet(attempts), beforeResult \in BOOLEAN :
        /\ a.stage = "meta"
        /\ Commit(IF ~beforeResult
             THEN bookingFailed(S, a, "BOOKING_CANCELLED")
             ELSE [S EXCEPT !.attempts =
                               (@ (-) one(a)) (+) one([a EXCEPT !.stage = "network"])])

\* the success path of createBookingForContext up to the call of
\* onBookingSuccess
bookingStored(n, a, booking) ==
    invalidateAvailability(
        [removeBookedSlot(n, a.slot) EXCEPT
              !.confirmedBooking = booking,
              !.selectedSlot = NoSlot,
              !.eventType = IF @ # NoEvent THEN @ ELSE a.ev,
              !.activeTemplate = NoTemplate,
              !.step = SUCCESS,
              !.callbacks = Append(@, "success")],
        a.ev)

\* the success path of createBookingForContext; an exception of
\* onBookingSuccess is caught by the catch block of the function
bookingSucceeded(n, a, booking) ==
    LET b == bookingStored(n, a, booking)
        c == [b EXCEPT
                  !.settled = [via |-> a.via, ok |-> TRUE],
                  !.lastResult = [returned |-> TRUE, ok |-> TRUE,
                                  code |-> "none", slot |-> a.slot],
                  !.isSubmitting = FALSE,
                  !.attempts = @ (-) one(a)]
    IN  IF n.hostCallbacks.successThrows
        THEN bookingFailed(b, a, "callback_failed")
        ELSE IF a.via = "paypal"
        THEN paypalSettled(c, TRUE, n.paypalEffectCancelled = "live")
        ELSE c

\* Bookkeeping for the cache claims: whatever was fetched for the event type
\* before this booking (the slot map shown, the cache entries, the requests
\* in flight) predates it; lastBooked is the slot it took.
bookedNow(n, a) ==
    LET mark(x) == IF x.key[1] = a.ev THEN [x EXCEPT !.stale = TRUE] ELSE x
    IN  [n EXCEPT !.slotsStale = a.slot,
                  !.lastBooked = [@ EXCEPT ![a.ev] = a.slot],
                  !.slotReqs = BagOfAll(mark, @),
                  !.availabilityCache =
                      [k \in DOMAIN @ |->
                          IF k[1] = a.ev /\ @[k].present
                          THEN [@[k] EXCEPT !.stale = TRUE] ELSE @[k]]]

\* createBookingForContext after api.createBooking
BookingResponse ==
    \E a \in BagToSet(attempts), throws \in BOOLEAN :
        /\ a.stage = "network"
        /\ Commit(IF throws
             THEN bookingFailed(S, a, "booking_failed")
             ELSE [bookingSucceeded(bookedNow(S, a), a, "book_1") EXCEPT
                       !.awaitingFetch = @ \cup {a.ev},
                       !.storedAt = [k \in DOMAIN @ |->
                                        IF k[1] = a.ev THEN -1 ELSE @[k]]])

\* completePayPalBooking after capturePayPalOrder: a capture id, no capture id
\* and no failure flag, success === false, or a rejected call
CaptureResponse ==
    \E outcome \in {"captured", "no_id", "failed", "throws"} :
        /\ captureReq.active
        /\ LET captureId == IF outcome = "captured" THEN "cap_1" ELSE NoCapture
               n == [S EXCEPT !.captureReq = [@ EXCEPT !.active = FALSE,
                                                       !.returned = captureId]]
               pendingBooking == mountPending
               caught == [n EXCEPT !.error = "capture_failed",
                                   !.alternatives = {},
                                   !.callbacks = Append(@, "error")]
           IN  Commit(IF outcome \in {"failed", "throws"}
                 THEN IF n.hostCallbacks.errorThrows THEN caught
                      ELSE paypalSettled(caught, FALSE,
                                         n.paypalEffectCancelled = "live")
                 ELSE createBookingForContext(n, pendingBooking.slot,
                                              pendingBooking.eventType, "paypal",
                                              pendingBooking.orderId, captureId))

\* ------------------------------------------------------------------------
\* Specifications
\* ------------------------------------------------------------------------

\* Spec: the widget on a plain page load, with any of the four setups, driven
\* through what the bundled components render.
Init == InitIds(TRUE) /\ InitApi("online") /\ InitForm /\ \E setup \in Setups : InitWith(setup, PlainLoad, TRUE)

Next ==
    \/ Mount
    \/ InitSlugResponse
    \/ InitEmbedResponse
    \/ InitEmbedEventResponse
    \/ SelectEventType
    \/ SlotsResponse
    \/ SelectSlot
    \/ ConfirmSelectedSlot
    \/ GoBack
    \/ RestartAfterSuccess
    \/ FormSubmit
    \/ BookingIssue
    \/ BookingResponse

Spec == Init /\ [][Next]_vars

\* SpecHost: a host application that also calls submitBooking and
\* refreshScheduler of useBooking() itself, around a provided event type.
InitHost == InitIds(TRUE) /\ InitApi("online") /\ InitForm /\ InitWith(<< "evA", FALSE, FALSE >>, PlainLoad, TRUE)

NextHost ==
    \/ Mount
    \/ RefreshScheduler
    \/ SlotsResponse
    \/ SelectSlot
    \/ ConfirmSelectedSlot
    \/ GoBack
    \/ RestartAfterSuccess
    \/ SubmitBooking
    \/ FormSubmit
    \/ BookingIssue
    \/ BookingResponse

SpecHost == InitHost /\ [][NextHost]_vars

\* SpecAttempts: a host application that calls refreshScheduler and unmounts
\* the provider while the event type or the embed's list is still loading.
InitAttempts ==
    /\ InitIds(TRUE) /\ InitApi("online") /\ InitForm
    /\ \E setup \in { << NoEvent, TRUE, FALSE >>, << NoEvent, FALSE, TRUE >> } :
          InitWith(setup, PlainLoad, TRUE)

NextAttempts ==
    \/ Mount
    \/ RefreshScheduler
    \/ Unmount
    \/ InitSlugResponse
    \/ InitEmbedResponse
    \/ InitEmbedEventResponse
    \/ SelectEventType
    \/ GoBack
    \/ (phase = "mounted" /\ SlotsResponse)

SpecAttempts == InitAttempts /\ [][NextAttempts]_vars

\* SpecCache: a host application that calls loadSlots itself while the clock
\* advances, around a provided event type.
NextCache ==
    \/ Mount
    \/ LoadSlots
    \/ SlotsResponse
    \/ SelectSlot
    \/ ConfirmSelectedSlot
    \/ GoBack
    \/ RestartAfterSuccess
    \/ Tick
    \/ FormSubmit
    \/ BookingIssue
    \/ BookingResponse

SpecCache == InitHost /\ [][NextCache]_vars

\* SpecReturn: a page load on a return from PayPal.
InitReturn ==
    /\ InitIds(TRUE) /\ InitApi("online") /\ InitForm
    /\ \E setup \in Setups \ {<< NoEvent, FALSE, FALSE >>}, load \in ReturnLoads :
        InitWith(setup, load, TRUE)

NextReturn ==
    \/ Mount
    \/ InitSlugResponse
    \/ InitEmbedResponse
    \/ InitEmbedEventResponse
    \/ SlotsResponse
    \/ SelectSlot
    \/ ConfirmSelectedSlot
    \/ GoBack
    \/ RestartAfterSuccess
    \/ FormSubmit
    \/ CaptureResponse
    \/ BookingIssue
    \/ BookingResponse

SpecReturn == InitReturn /\ [][NextReturn]_vars

\* SpecReturnHost: a page load on an approved return from PayPal (token and
\* payer id in the URL) inside a host application that also calls
\* refreshScheduler, around a provided event type.
ApprovedLoads == { l \in ReturnLoads : l[1] = << TRUE, TRUE, FALSE >> }

InitReturnHost ==
    /\ InitIds(TRUE) /\ InitApi("online") /\ InitForm
    /\ \E load \in ApprovedLoads : InitWith(<< "evA", FALSE, FALSE >>, load, TRUE)

NextReturnHost ==
    \/ Mount
    \/ RefreshScheduler
    \/ SlotsResponse
    \/ SelectSlot
    \/ ConfirmSelectedSlot
    \/ GoBack
    \/ RestartAfterSuccess
    \/ FormSubmit
    \/ CaptureResponse
    \/ BookingIssue
    \/ BookingResponse

SpecReturnHost == InitReturnHost /\ [][NextReturnHost]_vars

\* SpecEvents: an embed whose list items lack their details, so that every
\* selection fetches the event type by slug.
InitEvents == InitIds(TRUE) /\ InitApi("online") /\ InitForm /\ InitWith(<< NoEvent, FALSE, TRUE >>, PlainLoad, FALSE)

NextEvents ==
    \/ Mount
    \/ InitEmbedResponse
    \/ InitEmbedEventResponse
    \/ SelectEventType
    \/ EventResponse
    \/ SlotsResponse
    \/ SelectSlot
    \/ ConfirmSelectedSlot
    \/ GoBack
    \/ RestartAfterSuccess
    \/ FormSubmit
    \/ BookingIssue
    \/ BookingResponse

SpecEvents == InitEvents /\ [][NextEvents]_vars

\* SpecCallbacks: a plain page load or an approved return from PayPal around a
\* provided event type, in a host whose onBookingSuccess and onBookingError
\* return normally or throw.
HostCallbacks == [successThrows : BOOLEAN, errorThrows : BOOLEAN]

InitCallbacks ==
    /\ InitIds(TRUE) /\ InitApi("online") /\ InitForm
    /\ \E load \in {PlainLoad} \cup ApprovedLoads, host \in HostCallbacks :
          InitProvider(<< "evA", FALSE, FALSE >>, load, TRUE, host)

NextCallbacks ==
    \/ Mount
    \/ SlotsResponse
    \/ SelectSlot
    \/ ConfirmSelectedSlot
    \/ FormSubmit
    \/ CaptureResponse
    \/ BookingIssue
    \/ BookingResponse

SpecCallbacks == InitCallbacks /\ [][NextCallbacks]_vars

\* SpecSelections: the guest picks event types from the list of an embed
\* whose items lack their details, also while a detail fetch is in flight.
InitSelections == InitIds(TRUE) /\ InitApi("online") /\ InitForm /\ InitWith(<< NoEvent, FALSE, TRUE >>, PlainLoad, FALSE)

NextSelections ==
    \/ Mount
    \/ InitEmbedResponse
    \/ InitEmbedEventResponse
    \/ SelectEventType
    \/ EventResponse
    \/ SlotsResponse
    \/ GoBack

SpecSelections == InitSelections /\ [][NextSelections]_vars

\* SpecIds: calls of the identity utilities, with and without localStorage;
\* the provider is not mounted.
providerVars ==
    << phase, providedEventType, eventSlug, embedKey, listHasDetails,
       step, eventType, eventTypes, selectionMode, organization,
       slots, selectedSlot, confirmedBooking, activeTemplate, templateOptions,
       error, alternatives, loadError,
       isInitializing, isLoadingSlots, isFetchingEvent, isSubmitting, refreshTick,
       availabilityCache, initRequestRef, paypalReturnHandled,
       urlToken, urlPayerId, urlCancelled, pendingStore, now,
       inits, eventReqs, slotReqs, templateReqs, captureReq, attempts,
       paypalEffectCancelled, captureCalls, mountPending, fetchSelection,
       hostCallbacks, callbacks,
       loads, awaitingFetch, storedAt, lastBooked, slotsStale, lastOp, settled,
       lastResult >>

InitIdsOnly ==
    /\ \E available \in BOOLEAN : InitIds(available)
    /\ InitApi("online") /\ InitForm
    /\ InitWith(<< NoEvent, FALSE, FALSE >>, PlainLoad, TRUE)

NextIds ==
    \/ RequestId /\ UNCHANGED << providerVars, apiVars, formVars >>
    \/ IdTick /\ UNCHANGED << providerVars, apiVars, formVars >>

SpecIds == InitIdsOnly /\ [][NextIds]_vars

\* SpecStorage: calls of the three generators over storage that is missing,
\* throws on getItem or on setItem, or holds what the SDK did not write.
\* an id that no createUuid() of the model returns
ForeignId == MaxUuids + 1

\* entries that some other writer left under a scope
ForeignEntries ==
    {NoIdEntry}
        \cup [id : {0, ForeignId}, expiresAt : {0, RequestIdTtl}, object : BOOLEAN]

StoredItems ==
    [readThrows : BOOLEAN, writeThrows : BOOLEAN,
     shape : {"none", "invalid_json", "not_object"}, entries : {NoEntries}]
        \cup [readThrows : BOOLEAN, writeThrows : BOOLEAN, shape : {"object"},
              entries : { [s \in SafeScopes |-> e] : e \in ForeignEntries }]

InitStorage ==
    /\ storageAvailable \in BOOLEAN
    /\ requestIdStore \in StoredItems
    /\ idNow = 0 /\ uuidsDrawn = 0
    /\ lastIdCall = NoIdCall
    /\ minted = [s \in SafeScopes |-> [id |-> 0, at |-> 0]]
    /\ sessionStore \in [available : BOOLEAN, readThrows : BOOLEAN,
                          writeThrows : BOOLEAN, item : {0, ForeignId}]
    /\ contactItem \in {0, ForeignId}
    /\ lastToken = NoTokenCall
    /\ InitApi("online") /\ InitForm
    /\ InitWith(<< NoEvent, FALSE, FALSE >>, PlainLoad, TRUE)

NextStorage ==
    \/ RequestId /\ UNCHANGED << providerVars, apiVars, formVars >>
    \/ TrackingSessionId /\ UNCHANGED << providerVars, apiVars, formVars >>
    \/ ContactToken /\ UNCHANGED << providerVars, apiVars, formVars >>

SpecStorage == InitStorage /\ [][NextStorage]_vars

\* SpecApi: one call of the API client, from any connectivity, with every
\* course its fetches can take; the provider is not mounted.
InitApiOnly ==
    /\ InitIds(TRUE)
    /\ \E conn \in Connectivity : InitApi(conn)
    /\ InitForm
    /\ InitWith(<< NoEvent, FALSE, FALSE >>, PlainLoad, TRUE)

NextApi ==
    \/ Request /\ UNCHANGED << providerVars, idVars, formVars >>
    \/ FetchSettles /\ UNCHANGED << providerVars, idVars, formVars >>
    \/ SleepDone /\ UNCHANGED << providerVars, idVars, formVars >>

SpecApi == InitApiOnly /\ [][NextApi]_vars

\* SpecCheckout: the booking form of a paid event with a slot selected, with
\* both payment providers on offer, on a page with or without
\* sessionStorage; the provider around it is not modelled here.
InitCheckout ==
    /\ InitIds(TRUE) /\ InitApi("online")
    /\ InitWith(<< NoEvent, FALSE, FALSE >>, PlainLoad, TRUE)
    /\ \E sessionAvailable \in BOOLEAN : checkout = FreshCheckout(sessionAvailable)
    /\ resolver = FreshResolver(<< >>, FALSE)
    /\ formSchema = NoSchema /\ answers = NoAnswers /\ validation = NoValidation
    /\ failure = NoFailure
    /\ picker = FreshPicker(TRUE, TRUE)
    /\ issued = NoneIssued
    /\ templates = FreshTemplates(NoTemplate, << >>, NoTemplate)

NextCheckout ==
    \/ SelectProvider /\ UNCHANGED << providerVars, idVars, apiVars, resolver, formSchema, answers, validation, failure, picker, issued, templates >>
    \/ SubmitForPayment /\ UNCHANGED << providerVars, idVars, apiVars, resolver, formSchema, answers, validation, failure, picker, issued, templates >>
    \/ PayPalOrderResponse /\ UNCHANGED << providerVars, idVars, apiVars, resolver, formSchema, answers, validation, failure, picker, issued, templates >>
    \/ PaymentIntentResponse /\ UNCHANGED << providerVars, idVars, apiVars, resolver, formSchema, answers, validation, failure, picker, issued, templates >>
    \/ CardSubmit /\ UNCHANGED << providerVars, idVars, apiVars, resolver, formSchema, answers, validation, failure, picker, issued, templates >>
    \/ ConfirmResponse /\ UNCHANGED << providerVars, idVars, apiVars, resolver, formSchema, answers, validation, failure, picker, issued, templates >>
    \/ handlePaymentSuccess /\ UNCHANGED << providerVars, idVars, apiVars, resolver, formSchema, answers, validation, failure, picker, issued, templates >>
    \/ PaidBookingResponse /\ UNCHANGED << providerVars, idVars, apiVars, resolver, formSchema, answers, validation, failure, picker, issued, templates >>
    \/ handlePaymentClose /\ UNCHANGED << providerVars, idVars, apiVars, resolver, formSchema, answers, validation, failure, picker, issued, templates >>

SpecCheckout == InitCheckout /\ [][NextCheckout]_vars

\* SpecSuggestions: the booking form showing a conflict error that carries
\* alternatives, with and without a suggestion service.
InitSuggestions ==
    /\ InitIds(TRUE) /\ InitApi("online")
    /\ InitWith(<< NoEvent, FALSE, FALSE >>, PlainLoad, TRUE)
    /\ checkout = FreshCheckout(TRUE)
    /\ formSchema = NoSchema /\ answers = NoAnswers /\ validation = NoValidation
    /\ failure = NoFailure
    /\ picker = FreshPicker(TRUE, TRUE)
    /\ issued = NoneIssued
    /\ templates = FreshTemplates(NoTemplate, << >>, NoTemplate)
    /\ \E alts \in AlternativeLists, hasService \in BOOLEAN :
          resolver = FreshResolver(alts, hasService)

NextSuggestions ==
    \/ SuggestionsEffect /\ UNCHANGED << providerVars, idVars, apiVars, checkout, formSchema, answers, validation, failure, picker, issued, templates >>
    \/ SuggestionsResponse /\ UNCHANGED << providerVars, idVars, apiVars, checkout, formSchema, answers, validation, failure, picker, issued, templates >>

SpecSuggestions == InitSuggestions /\ [][NextSuggestions]_vars

\* SpecForm: a schema of two fields, the second with or without a conditional
\* rule on the answer of the first; the guest edits answers and the form is
\* validated.
Operators == {"equals", "not_equals", "contains", "is_empty", "is_not_empty", "unknown"}

Conditions == [fieldId : {"F1"}, operator : Operators, value : {StrYes, StrYe}]

\* the second condition of a rule of two
SecondConditions ==
    { c \in Conditions : c.operator \in {"not_equals", "is_not_empty"} }

ConditionLists ==
    { << >> } \cup { << c >> : c \in Conditions }
        \cup { << c, d >> : c \in Conditions, d \in SecondConditions }

\* no rule, a rule switched on or off, a rule whose conditions are no array
Conditionals ==
    { NoConditional,
      [present |-> TRUE, show |-> TRUE, isArray |-> FALSE, conditions |-> << >>] }
        \cup [present : {TRUE}, show : BOOLEAN, isArray : {TRUE}, conditions : ConditionLists]

Schemas ==
    { << [id |-> "F1", required |-> r1, type |-> "short_text", conditional |-> NoConditional],
         [id |-> "F2", required |-> r2, type |-> t2, conditional |-> c2] >> :
        r1 \in BOOLEAN, r2 \in BOOLEAN, t2 \in {"short_text", "email"}, c2 \in Conditionals }

InitFormOnly ==
    /\ InitIds(TRUE) /\ InitApi("online")
    /\ InitWith(<< NoEvent, FALSE, FALSE >>, PlainLoad, TRUE)
    /\ checkout = FreshCheckout(TRUE) /\ resolver = FreshResolver(<< >>, FALSE)
    /\ formSchema \in Schemas /\ answers = NoAnswers /\ validation = NoValidation
    /\ failure = NoFailure
    /\ picker = FreshPicker(TRUE, TRUE)
    /\ issued = NoneIssued
    /\ templates = FreshTemplates(NoTemplate, << >>, NoTemplate)

NextForm ==
    \/ handleChange /\ UNCHANGED << providerVars, idVars, apiVars, checkout, resolver, failure, picker, issued, templates >>
    \/ ValidateForm /\ UNCHANGED << providerVars, idVars, apiVars, checkout, resolver, failure, picker, issued, templates >>

SpecForm == InitFormOnly /\ [][NextForm]_vars

\* SpecFailures: booking attempts that fail, one after the other, with any
\* error code, with or without status 429, alternatives and suggestions.
InitFailures ==
    /\ InitIds(TRUE) /\ InitApi("online") /\ InitForm
    /\ InitWith(<< NoEvent, FALSE, FALSE >>, PlainLoad, TRUE)

NextFailures ==
    \/ BookingFails /\ UNCHANGED << providerVars, idVars, apiVars, checkout, resolver,
                                     formSchema, answers, validation, picker, issued, templates >>

SpecFailures == InitFailures /\ [][NextFailures]_vars

\* SpecPick: the booking form after conflict errors, with the suggestions of
\* the conflict resolver and the alternatives of the error to pick from.
InitPick ==
    /\ InitIds(TRUE) /\ InitApi("online")
    /\ InitWith(<< NoEvent, FALSE, FALSE >>, PlainLoad, TRUE)
    /\ checkout = FreshCheckout(TRUE) /\ resolver = FreshResolver(<< >>, FALSE)
    /\ formSchema = NoSchema /\ answers = NoAnswers /\ validation = NoValidation
    /\ failure = NoFailure
    /\ \E hasFeedbackAction \in BOOLEAN, hasEventType \in BOOLEAN :
          picker = FreshPicker(hasFeedbackAction, hasEventType)
    /\ issued = NoneIssued
    /\ templates = FreshTemplates(NoTemplate, << >>, NoTemplate)

NextPick ==
    \/ ConflictError /\ UNCHANGED << providerVars, idVars, apiVars, checkout, resolver, formSchema, answers, validation, failure, issued, templates >>
    \/ handleSelectSuggestion /\ UNCHANGED << providerVars, idVars, apiVars, checkout, resolver, formSchema, answers, validation, failure, issued, templates >>
    \/ PickAlternative /\ UNCHANGED << providerVars, idVars, apiVars, checkout, resolver, formSchema, answers, validation, failure, issued, templates >>
    \/ FeedbackResponse /\ UNCHANGED << providerVars, idVars, apiVars, checkout, resolver, formSchema, answers, validation, failure, issued, templates >>

SpecPick == InitPick /\ [][NextPick]_vars

\* SpecScopes: booking submissions of several scopes ask for their client
\* request ids while the clock advances, with and without localStorage.
InitScopes ==
    /\ \E available \in BOOLEAN : InitIds(available)
    /\ InitApi("online") /\ InitForm
    /\ InitWith(<< NoEvent, FALSE, FALSE >>, PlainLoad, TRUE)

NextScopes ==
    \/ SubmissionRequestId /\ UNCHANGED << providerVars, apiVars, checkout, resolver, formSchema, answers, validation, failure, picker, templates >>
    \/ IdTick /\ UNCHANGED << providerVars, apiVars, formVars >>

SpecScopes == InitScopes /\ [][NextScopes]_vars

\* SpecTemplates: the booking form with or without an initial template and
\* with up to two template options, one of them flagged as default or none.
InitTemplates ==
    /\ InitIds(TRUE) /\ InitApi("online")
    /\ InitWith(<< NoEvent, FALSE, FALSE >>, PlainLoad, TRUE)
    /\ checkout = FreshCheckout(TRUE) /\ resolver = FreshResolver(<< >>, FALSE)
    /\ formSchema = NoSchema /\ answers = NoAnswers /\ validation = NoValidation
    /\ failure = NoFailure
    /\ picker = FreshPicker(TRUE, TRUE)
    /\ issued = NoneIssued
    /\ \E options \in { << >>, << "T1" >>, << "T1", "T2" >>, << "T2", "T1" >>,
                         << "TX", "T1" >> } :
       \E defaultId \in {NoTemplate} \cup {options[i] : i \in DOMAIN options},
          initialTemplate \in {NoTemplate} \cup {options[i] : i \in DOMAIN options} :
            templates = FreshTemplates(initialTemplate, options, defaultId)

NextTemplates ==
    \/ TemplatesMount /\ UNCHANGED << providerVars, idVars, apiVars, checkout, resolver, formSchema, answers, validation, failure, picker, issued >>
    \/ handleTemplateChange /\ UNCHANGED << providerVars, idVars, apiVars, checkout, resolver, formSchema, answers, validation, failure, picker, issued >>
    \/ TemplateEdited /\ UNCHANGED << providerVars, idVars, apiVars, checkout, resolver, formSchema, answers, validation, failure, picker, issued >>
    \/ TemplateSubmit /\ UNCHANGED << providerVars, idVars, apiVars, checkout, resolver, formSchema, answers, validation, failure, picker, issued >>

SpecTemplates == InitTemplates /\ [][NextTemplates]_vars

\* ------------------------------------------------------------------------
\* Claims
\* ------------------------------------------------------------------------

\* the booking-creation calls in flight
callsInFlight == [a \in { x \in BagToSet(attempts) : x.stage = "network" } |-> attempts[a]]

\* C1: a second submit while a first attempt is pending makes no second
\* booking-creation call: at any time at most one call is in flight.
C1_OneCallInFlight == BagCardinality(callsInFlight) <= 1

\* the booking attempts made by the PayPal resumption
paypalAttempts == { a \in BagToSet(attempts) : a.via = "paypal" }

\* C2: on a return from PayPal the booking is created only once the capture
\* has answered, for the stored order with the capture id returned and the
\* event type and slot of the stored snapshot; when it succeeds the step is
\* SUCCESS with the returned booking and the stored record is gone.
C2_PayPalResumption ==
    /\ \A a \in paypalAttempts :
          /\ captureCalls = 1 /\ ~captureReq.active
          /\ captureReq.orderId = mountPending.orderId
          /\ a.orderId = mountPending.orderId
          /\ a.captureId = captureReq.returned
          /\ a.ev = mountPending.eventType
          /\ a.slot = mountPending.slot
    /\ settled = [via |-> "paypal", ok |-> TRUE] =>
          /\ step = SUCCESS /\ confirmedBooking = "book_1"
          /\ pendingStore = NoPending

\* C2 is reached: a resumed booking succeeded for a snapshot whose event
\* type is not the one the provider was constructed with.
C2_Resumed ==
    /\ settled = [via |-> "paypal", ok |-> TRUE]
    /\ providedEventType = "evA" /\ mountPending.eventType = "evB"
    /\ captureReq.returned = "cap_1"

\* C3: the load on a return URL with cancelled=true deletes the stored
\* record, leaves the payment-cancelled message in error, makes no capture
\* and no booking call, and strips the callback parameters.
C3_CancelledReturn ==
    [][(phase = "constructed" /\ urlCancelled) =>
          /\ pendingStore' = NoPending
          /\ error' = "payment_cancelled"
          /\ captureCalls' = 0 /\ ~captureReq'.active /\ attempts' = EmptyBag
          /\ ~urlToken' /\ ~urlPayerId' /\ ~urlCancelled']_vars

C5_FetchAfterBooking ==
    \A i \in DOMAIN loads : /\ (loads[i].first => ~loads[i].hit)
                            /\ ~loads[i].stale

\* C6: with storage available, a call for a scope made less than the TTL
\* after the id of that scope was minted returns that id; a call made once
\* the TTL has passed returns a newly minted id, different from it.
C6_RequestIdStable ==
    (lastIdCall.called /\ storageAvailable /\ lastIdCall.prevId # 0) =>
        IF lastIdCall.at < lastIdCall.prevAt + RequestIdTtl
        THEN lastIdCall.id = lastIdCall.prevId /\ ~lastIdCall.isNew
        ELSE lastIdCall.id # lastIdCall.prevId /\ lastIdCall.isNew

\* C6 is reached: a scope's id has expired and the call minted another
C6_Reminted ==
    /\ lastIdCall.called /\ storageAvailable
    /\ lastIdCall.prevId # 0 /\ lastIdCall.isNew
    /\ lastIdCall.at >= lastIdCall.prevAt + RequestIdTtl

\* C7: restart from SUCCESS lands on SELECT_TIME with a forced slot fetch
\* when the provider is pinned to one event, on SELECT_EVENT otherwise, and
\* clears the confirmed booking and the selected slot.
C7_Restart ==
    lastOp = [name |-> "restartAfterSuccess", from |-> SUCCESS] =>
        /\ confirmedBooking = NoBooking /\ selectedSlot = NoSlot
        /\ IF pinned(S)
           THEN /\ step = SELECT_TIME
                /\ \E i \in DOMAIN loads : loads[i].force /\ loads[i].issued
           ELSE step = SELECT_EVENT

\* C7 is reached: a pinned provider restarted
C7_PinnedRestarted ==
    /\ lastOp = [name |-> "restartAfterSuccess", from |-> SUCCESS]
    /\ pinned(S) /\ step = SELECT_TIME

C9_ConfirmedIffSuccess == (confirmedBooking # NoBooking) <=> (step = SUCCESS)

\* C10: a slot removed from the slot map by its booking is not in the map
\* again unless the map comes from a fetch issued after the booking.
C10_BookedSlotStaysOut == slotsStale # NoSlot => slots[slotsStale] = "absent"

\* the status of a response is a client error other than 429
clientErrorStatus(r) == r.kind = "http" /\ r.status >= 400 /\ r.status <= 499 /\ r.status # 429

\* C11: one call makes at most 3 fetches, whatever they come to, and is over
\* once the third has settled; it returns the body of the first 2xx
\* response, which is the last fetch it made, and otherwise fails with the
\* error of the last fetch.
C11_AtMostThreeFetches ==
    /\ fetches <= 3 /\ Len(responses) <= fetches
    /\ Len(responses) = 3 => apiPhase = "done"
    /\ \A i \in DOMAIN responses :
          (responses[i].kind = "http" /\ responseOk(responses[i])) =>
              /\ i = Len(responses) /\ fetches = i /\ apiPhase = "done"
              /\ callResult.kind = "body" /\ callResult.body = responses[i].body
    /\ (apiPhase = "done" /\ responses # << >>
            /\ ~responseOk(responses[Len(responses)])) =>
          /\ callResult.kind = "error"
          /\ callResult.error.status = responses[Len(responses)].status
          /\ responses[Len(responses)].kind = "network" <=>
                 callResult.error.code = "network"

\* C11 is reached: a network failure, a 5xx and a 429 used the three fetches
C11_BudgetSpent ==
    /\ apiPhase = "done" /\ fetches = 3 /\ Len(responses) = 3
    /\ responses[1].kind = "network" /\ responses[2].status = 503
    /\ responses[3].status = 429 /\ callResult.error.status = 429

\* C12: a 4xx response other than 429 ends the call at once: no sleep and no
\* fetch follows it, and the call fails with an error of that status; when
\* it answers the first fetch, that fetch is the only one.
C12_ClientErrorNotRetried ==
    \A i \in DOMAIN responses :
        clientErrorStatus(responses[i]) =>
            /\ i = Len(responses) /\ apiPhase = "done"
            /\ fetches = i /\ Len(waits) = i - 1
            /\ callResult.kind = "error"
            /\ callResult.error.status = responses[i].status

\* C12 is reached: the first fetch was answered 404
C12_FirstAnswer404 ==
    /\ Len(responses) = 1 /\ responses[1].status = 404
    /\ apiPhase = "done" /\ fetches = 1 /\ waits = << >>

\* the seconds a 429 response asks to wait, read as the statement reads
\* them: the body's retryAfter, else the header's delay-seconds or the
\* seconds left to its date; -1 when the response carries none
statedRetryAfter(r) ==
    IF r.bodyRetryAfter # 0 THEN r.bodyRetryAfter
    ELSE IF r.header.form = "seconds" THEN r.header.n
    ELSE IF r.header.form = "date"
         THEN (IF r.header.n > 0 THEN (r.header.n + 999) \div 1000 ELSE 0)
    ELSE -1

\* the exponential backoff after the i-th fetch, without its jitter
statedBackoff(i) == IF i = 1 THEN 1000 ELSE IF i = 2 THEN 2000 ELSE 4000

\* the i-th sleep is the exponential backoff with its jitter
backoffWait(i) ==
    /\ waits[i].ms >= statedBackoff(i)
    /\ waits[i].ms < statedBackoff(i) + 350

\* C13 as stated: after a 429 with retries left the sleep is exactly the
\* Retry-After value the response carries, the backoff if it carries none,
\* and the retry counts in the budget of 2.
C13_RetryAfterHonoured ==
    /\ Len(waits) <= 2
    /\ \A i \in DOMAIN waits :
          responses[i].status = 429 =>
              IF statedRetryAfter(responses[i]) >= 0
              THEN waits[i].ms = statedRetryAfter(responses[i]) * 1000
              ELSE backoffWait(i)

\* C13, amended: the sleep is exactly the value carried when that value is
\* positive; a value of zero, a date not in the future and an unreadable
\* header count as none, and the sleep is the backoff.
C13_PositiveRetryAfterHonoured ==
    /\ Len(waits) <= 2
    /\ \A i \in DOMAIN waits :
          /\ apiAttempt >= i - 1
          /\ responses[i].status = 429 =>
              IF statedRetryAfter(responses[i]) > 0
              THEN waits[i].ms = statedRetryAfter(responses[i]) * 1000
              ELSE backoffWait(i)

\* C13 is reached: two 429 answers, the first with Retry-After: 3 and the
\* second with none, used both retries
C13_BothRetriesOn429 ==
    /\ Len(responses) = 3 /\ Len(waits) = 2 /\ fetches = 3
    /\ responses[1].status = 429 /\ responses[1].bodyRetryAfter = 0
    /\ responses[1].header = [form |-> "seconds", n |-> 3]
    /\ waits[1].ms = 3000
    /\ responses[2].status = 429 /\ statedRetryAfter(responses[2]) = -1
    /\ responses[3].status = 429

\* C14: a call made while navigator.onLine is false fails at once with code
\* OFFLINE and fetches nothing.
C14_OfflineFailsFast ==
    (online = "offline" /\ apiPhase # "idle") =>
        /\ apiPhase = "done" /\ fetches = 0 /\ responses = << >> /\ waits = << >>
        /\ callResult.kind = "error" /\ callResult.error.code = "OFFLINE"

\* C14 is reached: a call was made offline
C14_CalledOffline ==
    online = "offline" /\ apiPhase = "done" /\ callResult.error.code = "OFFLINE"

C16_NoSlotNoCall ==
    [][(lastOp'.name = "submitBooking" /\ (selectedSlot = NoSlot \/ eventType = NoEvent)) =>
          /\ lastResult'.returned /\ ~lastResult'.ok
          /\ lastResult'.code = "validation"
          /\ attempts' = attempts
          /\ isSubmitting' = isSubmitting]_vars

\* C16 is reached: submitBooking was called with an event type and no slot
C16_RejectedWithoutSlot ==
    /\ lastOp.name = "submitBooking" /\ lastResult.code = "validation"
    /\ eventType # NoEvent /\ selectedSlot = NoSlot /\ attempts = EmptyBag

\* C17: when the before-book hook returns false the attempt ends with code
\* BOOKING_CANCELLED, without having called createBooking; its slot is not
\* pending any more and the step is what it was.
C17_HookVeto ==
    [][lastResult'.code = "BOOKING_CANCELLED" =>
          /\ lastResult'.returned /\ ~lastResult'.ok
          /\ callsInFlight' = callsInFlight
          /\ BagCardinality(attempts') = BagCardinality(attempts) - 1
          /\ slots'[lastResult'.slot] # "pending"
          /\ step' = step]_vars

\* C17 is reached: the hook vetoed a submission made on the confirm step
C17_Vetoed ==
    /\ lastResult.code = "BOOKING_CANCELLED" /\ step = CONFIRM
    /\ slots[lastResult.slot] = "free" /\ attempts = EmptyBag

\* C18: the return from PayPal is handled at most once per page load: the
\* capture call is issued only by the first commit and never a second time,
\* and the resumed booking-creation call is issued only when that one capture
\* answers, whatever re-runs the effects afterwards (a changed event type or
\* slot, a scheduler refresh, a reinitialization once the parameters are gone).
C18_ResumedAtMostOnce ==
    [][ /\ captureCalls' <= 1
        /\ (captureReq'.active /\ ~captureReq.active) => phase = "constructed"
        /\ (captureCalls' # captureCalls) => phase = "constructed"
        /\ Cardinality(paypalAttempts') <= 1
        /\ (paypalAttempts = {} /\ paypalAttempts' # {}) =>
              (captureReq.active /\ ~captureReq'.active) ]_vars

\* the resumption has completed, its parameters are gone, and the scheduler
\* was refreshed afterwards
C18_RefreshedAfterResumption ==
    /\ captureCalls = 1 /\ ~captureReq.active /\ paypalAttempts = {}
    /\ confirmedBooking # NoBooking
    /\ ~hasReturnParams(S)
    /\ refreshTick > 0 /\ initRequestRef > 1

\* C19: once a resumption attempt has completed (the capture has answered and
\* the resumed booking call, if one was made, has answered too), succeeded or
\* failed, the callback parameters are no longer in the URL, so that a page
\* refresh does not resume again.
C19_ParamsStrippedAfterResumption ==
    ( /\ phase = "mounted" /\ paypalReturnHandled /\ captureCalls = 1
      /\ ~captureReq.active /\ paypalAttempts = {} )
        => ~hasReturnParams(S)

\* no event-type, embed event-list, slot or template request is in flight
noLoadingCalls ==
    /\ inits = {} /\ eventReqs = EmptyBag /\ slotReqs = EmptyBag /\ templateReqs = {}

\* C20: on a load whose URL carries token and payer id while a pending
\* record is stored, the first commit issues the capture call (when the
\* record is usable) and no event-type, embed, slot or template request, and
\* none of these is issued while the resumption is in progress.
C20_ResumptionBeforeLoading ==
    [][ /\ ( /\ phase = "constructed" /\ urlToken /\ urlPayerId /\ ~urlCancelled
              /\ hasPending(S) )
            => /\ noLoadingCalls' /\ loads' = << >>
               /\ ~isInitializing'
               /\ (pendingStore.kind = "valid") => (captureReq'.active /\ captureCalls' = 1)
        /\ (captureReq'.active \/ paypalAttempts' # {}) => noLoadingCalls' ]_vars

\* the capture is in flight on a load that names its event type by slug or by
\* embed key, whose initialization would otherwise have fetched it
C20_ResumingInsteadOfLoading ==
    /\ phase = "mounted" /\ captureReq.active /\ hasReturnParams(S)
    /\ providedEventType = NoEvent /\ (eventSlug \/ embedKey)
    /\ eventType = NoEvent /\ ~isInitializing

\* C21: on a load whose URL carries cancelled=true, the first commit does not
\* proceed with normal initialization: no request for the event type or for
\* the embed's event list is issued.
C21_CancelledSkipsInit ==
    [][(phase = "constructed" /\ urlCancelled) =>
          (inits' = {} /\ eventReqs' = EmptyBag)]_vars

\* C22: the stored pending record is gone once it has been consumed: when
\* the capture answered with a capture id and the resumed booking call has
\* ended, successfully or with a failure, nothing is left in sessionStorage
\* to resume the same order from.
C22_PendingConsumed ==
    ( /\ phase = "mounted" /\ paypalReturnHandled /\ captureCalls = 1
      /\ ~captureReq.active /\ captureReq.returned # NoCapture
      /\ paypalAttempts = {} )
        => pendingStore = NoPending

\* C23: whenever the browser has been sent to the approval URL, the record
\* with the order id returned, the payload submitted, the slot and the event
\* type is in sessionStorage, the create-order call of that submission is
\* the only one outstanding, and no booking-creation call is in flight or
\* has succeeded.
C23_PersistedBeforeRedirect ==
    checkout.location = ApproveUrl =>
        /\ checkout.sessionItem = [orderId |-> checkout.orderCalls,
                                   payload |-> checkout.pendingPayload,
                                   slot |-> checkout.resolvedSlot,
                                   eventType |-> checkout.resolvedEventType]
        /\ checkout.orderCalls >= 1 /\ ~checkout.orderReq.active
        /\ ~checkout.bookingReq.active /\ ~checkout.booked

\* C24: on the Stripe path a booking-creation call is made only by the
\* timer armed after a confirmation that succeeded, and it carries the id of
\* that payment intent; a confirmation that fails makes no booking call and
\* leaves the card form ready for another attempt, and none is made while a
\* confirmation is outstanding.
C24_BookingAfterConfirmedPayment ==
    [][ /\ \A i \in DOMAIN checkout'.bookingCalls :
              /\ checkout'.bookingCalls[i].payment_intent_id \in checkout'.succeeded
              /\ checkout'.bookingCalls[i].payment_intent_id # 0
        /\ (checkout'.bookingCalls # checkout.bookingCalls) =>
              (checkout.successTimer.active /\ checkout.paymentSuccess)
        /\ (checkout.confirmReq.active /\ checkout'.lastStep \in {"error", "processing", "throws"}) =>
              /\ checkout'.bookingCalls = checkout.bookingCalls
              /\ ~checkout'.successTimer.active /\ ~checkout'.bookingReq.active
              /\ checkout'.showPayment /\ checkout'.paymentClientSecret # 0
              /\ ~checkout'.isProcessing /\ ~checkout'.paymentSuccess
        /\ checkout'.confirmReq.active =>
              (checkout'.bookingCalls = checkout.bookingCalls /\ ~checkout'.bookingReq.active)
      ]_vars

\* a first confirmation failed, the guest tried again, the payment succeeded
\* and the booking call is in flight with the intent's id
C24_PaidAfterRetry ==
    /\ checkout.bookingReq.active /\ checkout.confirmCalls = 2
    /\ checkout.bookingCalls =
          << [payload |-> checkout.pendingPayload,
              payment_intent_id |-> checkout.paymentClientSecret] >>
    /\ checkout.paymentClientSecret \in checkout.succeeded

\* the suggestions the inline alternatives are to give: the alternatives in
\* their order, the one at rank i from 0 with confidence max(40, 75 - 10*i)
statedSuggestions(alts) ==
    [ k \in 1 .. Len(alts) |->
        [slot |-> alts[k],
         confidenceScore |-> CHOOSE c \in {40, 75 - 10 * (k - 1)} :
                                 c >= 40 /\ c >= 75 - 10 * (k - 1),
         explanation |-> "Available alternative slot"] ]

\* C25: when the suggestions shown come from the fallback (the service is
\* absent, or its last answer in effect failed, was empty or was no list),
\* they are the inline alternatives in their order with confidence
\* max(40, 75 - 10*i) at rank i from 0: 75, 65, 55 for three alternatives.
C25_FallbackSuggestions ==
    resolver.lastSource = "fallback" =>
        /\ resolver.conflictSuggestions = statedSuggestions(resolver.resolvedAlternatives)
        /\ Len(resolver.conflictSuggestions) = Len(resolver.resolvedAlternatives)
        /\ (Len(resolver.resolvedAlternatives) = 3 =>
              << resolver.conflictSuggestions[1].confidenceScore,
                 resolver.conflictSuggestions[2].confidenceScore,
                 resolver.conflictSuggestions[3].confidenceScore >> = << 75, 65, 55 >>)

\* five alternatives after a failed service call: the fifth is at the floor
C25_FloorReached ==
    /\ resolver.lastSource = "fallback" /\ resolver.hasService
    /\ Len(resolver.conflictSuggestions) = 5
    /\ resolver.conflictSuggestions[5].confidenceScore = 40
    /\ resolver.conflictSuggestions[1].slot = "E"

\* the fields of the schema by position
schemaFields == { formSchema[i] : i \in DOMAIN formSchema }

\* an empty, absent or empty-array answer
emptyAnswer(answer) ==
    \/ answer.kind = "absent"
    \/ answer.kind = "string" /\ answer.str = StrEmpty
    \/ answer.kind = "array" /\ answer.items = << >>

statedText(answer) ==
    CASE answer.kind = "absent" -> StrEmpty
      [] answer.kind = "string" -> answer.str
      [] answer.kind = "array" -> join(answer.items)

\* one condition as the operators are described: equals and not_equals are
\* membership tests on a multi-value answer, contains is a case-insensitive
\* substring test, is_empty and is_not_empty take an empty array and an
\* empty or absent scalar as empty
statedHolds(c, ans) ==
    LET a == ans[c.fieldId]
    IN  CASE c.operator = "equals" ->
               IF a.kind = "array" THEN \E i \in DOMAIN a.items : a.items[i] = c.value
               ELSE statedText(a) = c.value
          [] c.operator = "not_equals" ->
               IF a.kind = "array" THEN \A i \in DOMAIN a.items : a.items[i] # c.value
               ELSE statedText(a) # c.value
          [] c.operator = "contains" ->
               includes(toLowerCase(statedText(a)), toLowerCase(c.value))
          [] c.operator = "is_empty" -> emptyAnswer(a)
          [] c.operator = "is_not_empty" -> ~emptyAnswer(a)
          [] OTHER -> TRUE

\* the field has a rule that lists at least one condition
listsConditions(field) ==
    /\ field.conditional.present /\ field.conditional.isArray
    /\ Len(field.conditional.conditions) >= 1

\* C27 as stated: a field without a rule is visible, and a field whose rule
\* lists one or more conditions is visible only if all of them hold.
C27_VisibleOnlyIfAllHold ==
    \A field \in schemaFields :
        /\ ~field.conditional.present => isFieldVisible(field, answers)
        /\ (listsConditions(field) /\ isFieldVisible(field, answers)) =>
              \A i \in DOMAIN field.conditional.conditions :
                  statedHolds(field.conditional.conditions[i], answers)

\* C27 amended: a field without a rule, with a rule whose show flag is off,
\* or with a rule that lists no condition is visible; a field whose rule is
\* switched on and lists one or more conditions is visible exactly when all
\* of them hold.
C27_SwitchedOnRuleAllHold ==
    \A field \in schemaFields :
        /\ (~field.conditional.present \/ ~field.conditional.show \/ ~listsConditions(field))
              => isFieldVisible(field, answers)
        /\ (field.conditional.show /\ listsConditions(field)) =>
              ( isFieldVisible(field, answers) <=>
                  \A i \in DOMAIN field.conditional.conditions :
                      statedHolds(field.conditional.conditions[i], answers) )

\* a rule of two conditions of which only the first holds: the form was
\* validated with F2 hidden
C27_OneOfTwoHolds ==
    /\ validation.done /\ formSchema # NoSchema
    /\ formSchema[2].conditional.show
    /\ formSchema[2].conditional.conditions =
          << [fieldId |-> "F1", operator |-> "contains", value |-> StrYe],
             [fieldId |-> "F1", operator |-> "not_equals", value |-> StrYes] >>
    /\ answers["F1"] = Str(StrYes)
    /\ ~isFieldVisible(formSchema[2], answers)

\* C28: when the answer to a slot request issued for another event type than
\* the current one arrives, the slot map, the loading flag and the error
\* shown for the current event type stay as they are.
C28_StaleSlotsDiscarded ==
    [][ \A r \in BagToSet(slotReqs) :
          ( /\ eventType # NoEvent /\ r.key[1] # eventType
            /\ slotReqs' = slotReqs (-) one(r) )
            => (slots' = slots /\ isLoadingSlots' = isLoadingSlots /\ error' = error)
      ]_vars

\* C29: every initialization attempt takes a request id above every earlier
\* one; the answer to an attempt that was superseded by a newer attempt or
\* cancelled by the teardown changes none of event type, organization,
\* event-type list, step, load error and initializing flag; and while the
\* provider is mounted with the latest attempt complete, the initializing
\* flag is false.
C29_SupersededAttemptsIgnored ==
    /\ [](( /\ phase = "mounted"
            /\ ~\E i \in inits : ~i.cancelled /\ i.id = initRequestRef )
            => ~isInitializing)
    /\ [][ /\ initRequestRef' >= initRequestRef
           /\ \A i \in inits' : i.id <= initRequestRef'
           /\ \A i \in inits' :
                 (~\E j \in inits : j.id = i.id) =>
                     (i.id = initRequestRef' /\ i.id > initRequestRef)
           /\ \A i \in inits :
                 ( /\ i.cancelled \/ i.id # initRequestRef
                   /\ inits' = inits \ {i} )
                   => UNCHANGED << eventType, organization, eventTypes, step,
                                   loadError, isInitializing >>
         ]_vars

\* a superseded attempt has just been answered while the attempt that
\* replaced it is still loading
C29_AnsweredAfterRefresh ==
    /\ lastOp = [name |-> "initialize", from |-> "superseded"]
    /\ initRequestRef = 2 /\ isInitializing
    /\ \E i \in inits : ~i.cancelled /\ i.id = 2

\* C30: in a step that changes the current event type to another event type,
\* the selected slot, the active template, the error and the alternatives are
\* cleared, and the slot map is left empty or holds the cached slots of the
\* new event type: nothing of the previous event type is kept.
C30_ClearedOnEventTypeChange ==
    [][ (eventType' # eventType /\ eventType' # NoEvent) =>
          /\ selectedSlot' = NoSlot /\ activeTemplate' = NoTemplate
          /\ error' = NoError /\ alternatives' = {}
          /\ \/ slots' = EmptySlots
             \/ LET cacheEntry == availabilityCache'[<< eventType', Today(now') >>]
                IN  cacheEntry.present /\ slots' = slotMap(cacheEntry.slots)
      ]_vars

\* evB has just been selected after evA, whose slots were fetched: the slot
\* map is empty while evB's own request is in flight
C30_SecondEventTypeSelected ==
    /\ eventType = "evB" /\ step = SELECT_TIME
    /\ availabilityCache[<< "evA", Today(now) >>].present
    /\ ~availabilityCache[<< "evB", Today(now) >>].present
    /\ slots = EmptySlots /\ selectedSlot = NoSlot /\ isLoadingSlots
    /\ \E r \in BagToSet(slotReqs) : r.key[1] = "evB"

\* C31: the step that starts a booking attempt marks its slot pending when
\* the slot is in the map, and the createBooking call is issued by a later
\* step; the step that ends an attempt in failure leaves the slot in the map
\* and not pending; the step that ends it in success removes the slot, stores
\* the confirmed booking, clears selected slot and active template, sets the
\* step to SUCCESS and leaves no cache entry of that event type.
C31_OptimisticSlot ==
    [][ /\ \A a \in BagToSet(attempts') :
              CopiesIn(a, attempts') > CopiesIn(a, attempts) =>
                  \/ /\ a.stage = "meta"
                     /\ slots[a.slot] # "absent" => slots'[a.slot] = "pending"
                  \/ /\ a.stage = "network"
                     /\ CopiesIn([a EXCEPT !.stage = "meta"], attempts) >
                            CopiesIn([a EXCEPT !.stage = "meta"], attempts')
        /\ (settled'.via # "none" /\ ~settled'.ok /\ lastResult'.slot # NoSlot) =>
              /\ slots'[lastResult'.slot] # "pending"
              /\ slots[lastResult'.slot] # "absent" => slots'[lastResult'.slot] = "free"
        /\ settled'.ok =>
              /\ slots'[lastResult'.slot] = "absent"
              /\ confirmedBooking' # NoBooking
              /\ selectedSlot' = NoSlot /\ activeTemplate' = NoTemplate
              /\ step' = SUCCESS
              /\ \A a \in BagToSet(attempts) :
                    CopiesIn(a, attempts) > CopiesIn(a, attempts') =>
                        \A k \in DOMAIN availabilityCache' :
                            k[1] = a.ev => ~availabilityCache'[k].present
      ]_vars

\* an attempt has just succeeded: its slot is gone from the map, the other
\* slot is still shown and no cache entry is left
C31_PendingSlotBooked ==
    /\ settled = [via |-> "live", ok |-> TRUE] /\ step = SUCCESS
    /\ confirmedBooking # NoBooking /\ lastResult.slot # NoSlot
    /\ slots[lastResult.slot] = "absent"
    /\ \E s \in SlotIds : slots[s] = "free"
    /\ \A k \in DOMAIN availabilityCache : ~availabilityCache[k].present

\* C32: after a failed booking the alternatives are the error's inline
\* alternatives for SLOT_CONFLICT and empty for SLOT_LOCKED, OFFLINE and 429;
\* the template fallback suggestions are the error's suggestions for a
\* TEMPLATE_INVALID or NO_SAVED_TEMPLATE error that carries some, and empty
\* for every other failure.
C32_AlternativesAndSuggestions ==
    failure.failed =>
        LET e == failure.error
            inline(x) == IF x.kind = "array" THEN x.items ELSE << >>
        IN  /\ (e.code = "SLOT_CONFLICT" /\ ~e.is429) =>
                    failure.alternatives = inline(e.alternatives)
            /\ (e.code \in {"SLOT_LOCKED", "OFFLINE"} \/ e.is429) =>
                    failure.alternatives = << >>
            /\ failure.templateFallbackSuggestions =
                    IF e.code \in {"TEMPLATE_INVALID", "NO_SAVED_TEMPLATE"}
                    THEN inline(e.suggestions) ELSE << >>

\* the step picked a slot: a suggestion of the resolver or an alternative
pickedNow == picker'.lastStep \in {"suggestion", "alternative"}

\* the step cleared the error and the alternatives and selected slot
pickCleared(slot) ==
    /\ picker'.error = NoError /\ picker'.alternatives = << >>
    /\ picker'.selectedSlot = slot

\* the step sent one feedback call naming the slot selected before and slot
feedbackSent(slot) ==
    /\ Len(picker'.feedbackCalls) = Len(picker.feedbackCalls) + 1
    /\ picker'.feedbackCalls[Len(picker'.feedbackCalls)] =
          [originalSlot |-> picker.selectedSlot, suggestedSlot |-> slot,
           accepted |-> TRUE]

\* a failed feedback call changes neither the selection nor the error state
\* and invokes no error callback
feedbackFailureSwallowed ==
    picker'.lastStep = "feedback_failed" =>
        /\ picker'.selectedSlot = picker.selectedSlot
        /\ picker'.error = picker.error
        /\ picker'.alternatives = picker.alternatives
        /\ picker'.onBookingErrorCalls = picker.onBookingErrorCalls

\* C33: picking a suggested or alternative slot clears the error and the
\* alternatives, selects the slot picked and sends acceptance feedback that
\* names the slot selected before and the slot picked; a failed feedback call
\* changes nothing of the selection, the error state or the error callbacks.
C33_PickSendsFeedback ==
    [][ /\ pickedNow =>
              /\ pickCleared(picker'.selectedSlot)
              /\ picker'.selectedSlot \in PickSlots
              /\ feedbackSent(picker'.selectedSlot)
        /\ feedbackFailureSwallowed ]_vars

\* C33 as amended: every pick clears the error and the alternatives and
\* selects the slot picked; a pick in the conflict resolver sends acceptance
\* feedback naming both slots when the feedback action and the event type are
\* there, a pick among the alternatives of the error sends none; a failed
\* feedback call changes nothing of the selection, the error state or the
\* error callbacks.
C33_ResolverPickSendsFeedback ==
    [][ /\ pickedNow =>
              /\ pickCleared(picker'.selectedSlot)
              /\ picker'.selectedSlot \in PickSlots
              /\ IF /\ picker'.lastStep = "suggestion"
                    /\ picker.hasFeedbackAction /\ picker.hasEventType
                 THEN feedbackSent(picker'.selectedSlot)
                 ELSE picker'.feedbackCalls = picker.feedbackCalls
        /\ feedbackFailureSwallowed ]_vars

\* the feedback for a suggestion picked after a second conflict has failed
\* while the slot picked stays selected without an error
C33_FeedbackFailedAfterPick ==
    /\ picker.lastStep = "feedback_failed"
    /\ Len(picker.feedbackCalls) = 2 /\ picker.error = NoError
    /\ picker.selectedSlot = picker.feedbackCalls[2].suggestedSlot
    /\ picker.feedbackCalls[2].originalSlot = picker.feedbackCalls[1].suggestedSlot

\* C34: two scope keys that differ never hold the same client request id:
\* submissions whose scopes differ are given different ids.
C34_NewScopeNewId ==
    \A k1, k2 \in ScopeKeys :
        (k1 # k2 /\ issued[k1] # 0) => issued[k1] # issued[k2]

\* C35: while the provider is pinned to one event (single selection mode, an
\* event slug or a provided event type), a back action neither moves the
\* step to SELECT_EVENT nor clears the current event type.
C35_PinnedNeverBackToEvents ==
    [][ (lastOp'.name = "goBack" /\ pinned(S)) =>
          /\ step' # SELECT_EVENT
          /\ eventType # NoEvent => eventType' = eventType ]_vars

\* C36: whenever no booking attempt is in progress, the submitting flag is
\* false and no slot of the slot map is pending, however the attempts before
\* ended and whatever replaced the slot map meanwhile.
C36_IdleMeansRestored ==
    attempts = EmptyBag =>
        /\ ~isSubmitting
        /\ \A s \in SlotIds : slots[s] # "pending"

\* the last attempt in progress has just failed at the network; its slot is
\* shown free again
C36_RestoredAfterFailure ==
    /\ attempts = EmptyBag /\ ~isSubmitting
    /\ settled = [via |-> "live", ok |-> FALSE]
    /\ lastResult.code = "booking_failed" /\ lastResult.slot # NoSlot
    /\ slots[lastResult.slot] = "free"

\* C37: a booking-creation call of the PayPal resumption is in flight only
\* when the capture call has answered with a capture id, which the call
\* carries; after a capture that threw, reported failure or returned no
\* capture id there is none.
C37_BookingOnlyWithCaptureId ==
    \A a \in paypalAttempts :
        a.stage = "network" =>
            /\ ~captureReq.active
            /\ captureReq.returned # NoCapture
            /\ a.captureId = captureReq.returned

\* C38: once the guest has chosen a template or "Use standard form" in the
\* selector, the template selected is the one chosen, and a submission made
\* with "Use standard form" chosen carries no template_id.
C38_ChoiceStays ==
    templates.chosen.made =>
        /\ templates.selectedTemplateId = safeTemplateId(templates.chosen.id)
        /\ (templates.submitted.made /\ templates.chosen.id = StandardForm) =>
               templates.submitted.template_id = StandardForm

\* C39: when the last of the detail fetches in flight is answered, every one
\* of them having loaded its event type, the current event type is the one
\* selected last, whatever the order of the answers.
C39_LastSelectionWins ==
    [][ ( /\ eventReqs # EmptyBag /\ eventReqs' = EmptyBag
          /\ fetchSelection'.clean )
        => eventType' = fetchSelection'.last ]_vars

\* C40: the step that settles a booking attempt invokes one callback, once:
\* onBookingSuccess when the attempt succeeded and onBookingError when it
\* failed; and the step in which the capture of a PayPal resumption fails
\* invokes onBookingError once and starts no booking attempt.
C40_OneCallbackPerAttempt ==
    [][ /\ settled'.via # "none" =>
              callbacks' = IF settled'.ok THEN << "success" >> ELSE << "error" >>
        /\ (captureReq.active /\ ~captureReq'.active /\ error' = "capture_failed") =>
              (callbacks' = << "error" >> /\ attempts' = attempts) ]_vars

====
